---- MODULE Spec2Model ----
(***************************************************************************)
(* A model of one Blockcraft node: the Blockchain orchestrator with its    *)
(* ProofOfWorkConsensus, StandardMiningReward, DataHandler and             *)
(* StorageHandler plug-ins, and the P2PService message handler.            *)
(*                                                                         *)
(* Scheduling.  Node.js runs one callback at a time.  A step of the model  *)
(* is the code that runs between two suspensions: from the start of a      *)
(* handler, or from the completion of a setImmediate yield or of a storage *)
(* I/O, up to the next such suspension.  An await of a value that is       *)
(* already resolved only defers its continuation to the microtask queue;   *)
(* the one continuation that matters (addBlock after createBlock returns)  *)
(* is the step AddBlockResume, which runs before any other callback.       *)
(*                                                                         *)
(* Hashing.  SHA-256 is modelled as a perfect hash: the digest of a        *)
(* preimage is the tuple of the values concatenated into the preimage.     *)
(* The number of leading '0' characters of a block digest is a fixed       *)
(* function of the preimage (LeadingZeros).                                *)
(***************************************************************************)
EXTENDS Integers, Sequences, FiniteSets, TLC

VARIABLES
  chain,                   \* Blockchain.chain
  storage,                 \* the text of the storage file
  entryPool,               \* DataHandler.entryPool (a Map: insertion order kept)
  blockCreationInProgress, \* Blockchain.blockCreationInProgress
  processingPeerBlock,     \* Blockchain.processingPeerBlock
  processingOwnBlock,      \* Blockchain.processingOwnBlock
  processingPeerChain,     \* Blockchain.processingPeerChain
  currentMiningBlock,      \* ProofOfWorkConsensus.currentMiningBlock: <<>> is null
  pcOwn,                   \* where the addBlock call in flight is suspended
  block,                   \* addBlock's local `block`: <<>> is null/undefined
  pcPeer,                  \* where the addPeerBlock call in flight is suspended
  receivedBlock,           \* addPeerBlock's parameter while it is suspended
  pcChain,                 \* where the replaceChain call in flight is suspended
  fileWrite,               \* what saveBlockchain is writing while it is suspended
  messageHistory,          \* P2PService.messageHistory with the pending timers
  handled,                 \* every messageId this node ever processed (history)
  now,                     \* Date.now()
  loaded,                  \* how many blocks initialize() read from the file
  lastCall,                \* the code the last step ran and the case it met
  nodeB,                   \* a second node, where two nodes are connected
  network,                 \* what the two nodes have put on their sockets
  peers,                   \* P2PService.peers of each node, where connections
                           \* open and close: id -> the socket recorded for it
  sockets                  \* the WebSocket connections made so far

vars == <<chain, storage, entryPool, blockCreationInProgress,
          processingPeerBlock, processingOwnBlock, processingPeerChain,
          currentMiningBlock, pcOwn, block, pcPeer, receivedBlock,
          pcChain, fileWrite, messageHistory, handled, now, loaded,
          lastCall, nodeB, network, peers, sockets>>

-----------------------------------------------------------------------------
(* Bounds of the exploration *)

MaxChain == 2      \* no input arrives once the chain has this many blocks
MaxTicks == 1      \* the clock advances at most this many times
MaxEntryId == 2    \* entry ids 1..MaxEntryId
MaxMsgId == 1      \* message ids 1..MaxMsgId
TickMs == 30000    \* how far one step of the clock advances

(* Program constants *)

MAX_TIME_DIFF == 60000          \* DataHandler.validatePendingEntry
MAX_TIMESTEP_BACKWARD == -60000 \* Blockchain.isValidTimestamp
messageTimeout == 30000         \* P2PService constructor
YieldEvery == 1000              \* ProofOfWorkBlock.mineBlock: nonce % 1000

(* Configuration of the node under test (example.js style) *)

Config == [id |-> "A", ownerAddress |-> "KA", difficulty |-> 1,
           minEntriesPerBlock |-> 2, genesisTimestamp |-> 0,
           genesisEntries |-> <<>>]

Peers == <<"B", "C">>           \* P2PService.peers: the connected peers, in
                                \* Map order

\* ProofOfWorkConsensus constructor: this.difficulty = config.difficulty || 4
\* (a difficulty of 0, like one that is not given, is replaced by the default)
DefaultDifficulty == 4

ConsensusDifficulty(config) ==
  IF config.difficulty = 0 THEN DefaultDifficulty ELSE config.difficulty

-----------------------------------------------------------------------------
(* Entries *)

NoId == 0                       \* an entry submitted without entryId
EntryIds == 1..MaxEntryId

\* DataHandler.hashEntry: SHA-256 of the JSON of the six unsigned fields
hashEntry(e) ==
  <<e.from, e.to, e.amount, e.type, e.initiationTimestamp, e.data>>

\* the string the sender signs: the six fields plus the hash
signedEntry(e) ==
  <<e.from, e.to, e.amount, e.type, e.initiationTimestamp, e.data, e.hash>>

\* an ECDSA signature made with the private key of `key` over message `m`;
\* null is <<>>
Sign(key, m) == <<key, m>>

\* DataHandler.verifySignature
verifySignature(e) ==
  IF e.from # "ICO" /\ e.from # "INCENTIVE"
    THEN e.signature = Sign(e.from, signedEntry(e))
    ELSE TRUE

Abs(x) == IF x < 0 THEN -x ELSE x

\* validatePendingEntry with only its timestamp check
validatePendingEntryTimeOnly(e, t) ==
  Abs(t - e.initiationTimestamp) <= MAX_TIME_DIFF

\* DataHandler.validatePendingEntry, at clock value t
validatePendingEntry(e, t) ==
  IF hashEntry(e) # e.hash THEN FALSE
  ELSE IF ~verifySignature(e) THEN FALSE
  ELSE IF Abs(t - e.initiationTimestamp) > MAX_TIME_DIFF THEN FALSE
  ELSE TRUE

-----------------------------------------------------------------------------
(* Blocks and proof of work *)

\* ProofOfWorkBlock.computeHash: SHA-256 of the concatenation
\* index previousHash timestamp blockCreator ownerAddress JSON(data) nonce
computeHash(b) ==
  <<b.index, b.previousHash, b.timestamp, b.blockCreator, b.ownerAddress,
    b.data, b.nonce>>

\* new ProofOfWorkBlock({...}): the constructor computes the hash
ProofOfWorkBlock(index, data, previousHash, timestamp, blockCreator, ownerAddress, nonce, difficulty) ==
  LET b == [index |-> index, data |-> data, previousHash |-> previousHash,
            timestamp |-> timestamp, blockCreator |-> blockCreator,
            ownerAddress |-> ownerAddress, nonce |-> nonce,
            difficulty |-> difficulty, hash |-> <<>>]
  IN  [b EXCEPT !.hash = computeHash(b)]

\* The number of leading '0' characters of a digest is a fixed function of
\* its preimage: here of the nonce and of a salt made of the other hashed
\* fields.  One digest in 1500 starts with a '0', one in 3000 with "00".
Salt(h) == 700 * h[1] + 200 * Len(h[6]) + 500 * (h[3] \div 30000) + 700

DigestZeros(x) == IF x % 1500 # 0 THEN 0 ELSE IF x % 3000 # 0 THEN 1 ELSE 2

LeadingZeros(h) == DigestZeros(h[7] + Salt(h))

\* hash.substring(0, difficulty) === Array(difficulty + 1).join("0")
HasPrefix(b) == LeadingZeros(b.hash) >= b.difficulty

WithNonce(b, n) ==
  LET c == [b EXCEPT !.nonce = n] IN [c EXCEPT !.hash = computeHash(c)]

\* ProofOfWorkBlock.mineBlock, from a loop test to the next suspension or to
\* the return: the block reached, whether the loop suspended at the
\* setImmediate yield, and the value returned when it did not suspend.  The
\* loop tries the nonces one by one up to the first whose digest has the
\* prefix, or up to the next multiple of 1000.
mineBlock(b, stopMining) ==
  IF stopMining \/ HasPrefix(b)
    THEN [blk |-> b, yielded |-> FALSE, ret |-> ~stopMining]
    ELSE LET limit == ((b.nonce \div YieldEvery) + 1) * YieldEvery
             salt  == Salt(computeHash(b))
             hits  == {n \in (b.nonce + 1)..limit :
                         DigestZeros(n + salt) >= b.difficulty}
             last  == IF hits = {} THEN limit
                      ELSE CHOOSE n \in hits : \A m \in hits : n <= m
         IN  [blk |-> WithNonce(b, last),
              yielded |-> (last % YieldEvery = 0),
              ret |-> TRUE]

\* ProofOfWorkConsensus.createGenesisBlock: constructed, not mined
createGenesisBlock(config) ==
  ProofOfWorkBlock(0, config.genesisEntries, <<"0">>, config.genesisTimestamp,
                   "Genesis Block", "Genesis Block", 0,
                   ConsensusDifficulty(config))

\* ProofOfWorkConsensus.validateBlockHash
validateBlockHash(b) ==
  ProofOfWorkBlock(b.index, b.data, b.previousHash, b.timestamp,
                   b.blockCreator, b.ownerAddress, b.nonce,
                   b.difficulty).hash = b.hash

\* ProofOfWorkConsensus.validateBlockConsensus
validateBlockConsensus(b) == validateBlockHash(b)

\* an isValidTimestamp that accepts a timestamp at the backward limit
isValidTimestampInclusive(nextBlock, previousBlock) ==
  previousBlock.timestamp + MAX_TIMESTEP_BACKWARD <= nextBlock.timestamp

\* Blockchain.isValidTimestamp
isValidTimestamp(nextBlock, previousBlock) ==
  previousBlock.timestamp + MAX_TIMESTEP_BACKWARD < nextBlock.timestamp

\* Blockchain.getLatestBlock
getLatestBlock(c) == c[Len(c)]

\* Blockchain.validateBlock against chain c
validateBlock(b, c) ==
  LET latestBlock == getLatestBlock(c)
  IN  IF \/ b.index # latestBlock.index + 1
         \/ b.previousHash # latestBlock.hash
         \/ ~isValidTimestamp(b, latestBlock)
        THEN FALSE
        ELSE validateBlockConsensus(b)

\* Blockchain.validateChain: the report without its error list.  Block i of
\* the code is c[i + 1] here.
validateChain(c) ==
  LET I == 2..Len(c)
      areHashesValid == \A i \in I : validateBlockHash(c[i])
      arePreviousHashesValid == \A i \in I : c[i].previousHash = c[i-1].hash
      areIndexesValid == \A i \in I : c[i].index = i - 1
      areTimestampsValid == \A i \in I : isValidTimestamp(c[i], c[i-1])
  IN  [isValid |-> /\ areHashesValid /\ arePreviousHashesValid
                   /\ areIndexesValid /\ areTimestampsValid,
       blockCount |-> Len(c),
       areHashesValid |-> areHashesValid,
       arePreviousHashesValid |-> arePreviousHashesValid,
       areTimestampsValid |-> areTimestampsValid,
       areIndexesValid |-> areIndexesValid]

-----------------------------------------------------------------------------
(* The storage file.  A text is a sequence of pieces: the JSON text of an  *)
(* object (its keys with their values, in the order JSON.stringify writes  *)
(* them) or the separator.                                                  *)

Separator == <<",\n">>

\* ProofOfWorkBlock.toSerializableObject (with Block's)
toSerializableObject(b) ==
  [index |-> b.index, data |-> b.data, previousHash |-> b.previousHash,
   timestamp |-> b.timestamp, blockCreator |-> b.blockCreator,
   ownerAddress |-> b.ownerAddress, hash |-> b.hash, nonce |-> b.nonce,
   difficulty |-> b.difficulty]

\* JSON.stringify of a block object
JSONstringify(o) ==
  << <<"index", o.index>>, <<"data", o.data>>,
     <<"previousHash", o.previousHash>>, <<"timestamp", o.timestamp>>,
     <<"blockCreator", o.blockCreator>>, <<"ownerAddress", o.ownerAddress>>,
     <<"hash", o.hash>>, <<"nonce", o.nonce>>,
     <<"difficulty", o.difficulty>> >>

\* the value JSON.parse finds under key k in JSON text t
JSONvalue(t, k) == t[CHOOSE i \in 1..Len(t) : t[i][1] = k][2]

\* JSON.parse of the JSON text of a block
JSONparse(t) ==
  [index |-> JSONvalue(t, "index"), data |-> JSONvalue(t, "data"),
   previousHash |-> JSONvalue(t, "previousHash"),
   timestamp |-> JSONvalue(t, "timestamp"),
   blockCreator |-> JSONvalue(t, "blockCreator"),
   ownerAddress |-> JSONvalue(t, "ownerAddress"),
   hash |-> JSONvalue(t, "hash"), nonce |-> JSONvalue(t, "nonce"),
   difficulty |-> JSONvalue(t, "difficulty")]

\* StorageHandler.saveBlock: what it appends to the file
saveBlock(b) == <<JSONstringify(toSerializableObject(b)), Separator>>

RECURSIVE saveBlockchain(_)
\* StorageHandler.saveBlockchain: what it writes over the file;
\* JSON.stringify of a block that came off a message writes the same keys
saveBlockchain(c) ==
  IF c = <<>> THEN <<>>
  ELSE <<JSONstringify(Head(c)), Separator>> \o saveBlockchain(Tail(c))

\* a split that does not cut the text at the separator
splitNowhere(text, line) == <<line \o text>>

RECURSIVE split(_, _)
\* fileContent.split(",\n"): `line` is the line read so far
split(text, line) ==
  IF text = <<>> THEN <<line>>
  ELSE IF Head(text) = Separator
         THEN <<line>> \o split(Tail(text), <<>>)
         ELSE split(Tail(text), Append(line, Head(text)))

\* StorageHandler.loadBlockchain on a file: <<>> is no file, <<text>> a file.
\* It fails if there is no file or if a line is not one JSON text.
loadBlockchain(file) ==
  IF file = <<>> THEN [ok |-> FALSE, blocks |-> <<>>]
  ELSE LET lines == SelectSeq(split(file[1], <<>>), LAMBDA line : line # <<>>)
       IN  IF \A i \in 1..Len(lines) : Len(lines[i]) = 1
             THEN [ok |-> TRUE,
                   blocks |-> [i \in 1..Len(lines) |-> JSONparse(lines[i][1])]]
             ELSE [ok |-> FALSE, blocks |-> <<>>]

-----------------------------------------------------------------------------
(* The node's state as one value, so that the code's calls compose.  The  *)
(* fields emitted and sent collect what one step emits and sends: the      *)
(* events in order, and the messages put on peer sockets in order.         *)

State ==
  [chain |-> chain, storage |-> storage, entryPool |-> entryPool,
   blockCreationInProgress |-> blockCreationInProgress,
   processingPeerBlock |-> processingPeerBlock,
   processingOwnBlock |-> processingOwnBlock,
   processingPeerChain |-> processingPeerChain,
   currentMiningBlock |-> currentMiningBlock, pcOwn |-> pcOwn,
   block |-> block, pcPeer |-> pcPeer, receivedBlock |-> receivedBlock,
   pcChain |-> pcChain, fileWrite |-> fileWrite,
   messageHistory |-> messageHistory, handled |-> handled, now |-> now,
   loaded |-> loaded,
   emitted |-> <<>>, sent |-> <<>>, lastCall |-> lastCall,
   config |-> Config, peers |-> Peers]

\* the node's variables take the values of r
NodeBecomes(r) ==
  /\ chain' = r.chain
  /\ storage' = r.storage
  /\ entryPool' = r.entryPool
  /\ blockCreationInProgress' = r.blockCreationInProgress
  /\ processingPeerBlock' = r.processingPeerBlock
  /\ processingOwnBlock' = r.processingOwnBlock
  /\ processingPeerChain' = r.processingPeerChain
  /\ currentMiningBlock' = r.currentMiningBlock
  /\ pcOwn' = r.pcOwn
  /\ block' = r.block
  /\ pcPeer' = r.pcPeer
  /\ receivedBlock' = r.receivedBlock
  /\ pcChain' = r.pcChain
  /\ fileWrite' = r.fileWrite
  /\ messageHistory' = r.messageHistory
  /\ handled' = r.handled
  /\ now' = r.now
  /\ loaded' = r.loaded
  /\ lastCall' = r.lastCall

\* a step of the node alone ends in state s
Becomes(s) ==
  \E r \in {s} : NodeBecomes(r) /\ UNCHANGED <<nodeB, network, peers, sockets>>

\* this.emit(name, arg) as the observers of a run see it: the event's name
\* and what identifies its argument (an entryId, a block index, a chain
\* length; -1 for null)
Emit(s, name, arg) == [s EXCEPT !.emitted = Append(@, <<name, arg>>)]

\* peer.ws.send(JSON.stringify(msg)) to peer `to`
Send(s, to, msg) == [s EXCEPT !.sent = Append(@, [to |-> to, msg |-> msg])]

RECURSIVE SendEach(_, _, _, _)
SendEach(s, ps, except, msg) ==
  IF ps = <<>> THEN s
  ELSE SendEach(IF Head(ps) # except THEN Send(s, Head(ps), msg) ELSE s,
                Tail(ps), except, msg)

\* broadcast that skips no peer
broadcastToAll(s, msg) == SendEach(s, s.peers, "", msg)

\* P2PService.broadcast: to every peer but the one named by
\* msg.senderConfig.id
broadcast(s, msg) == SendEach(s, s.peers, msg.senderConfig, msg)

\* nanoid() for a message id: an id no peer message carries
FreshMessageId == 0

\* P2PService.broadcastEntry: the message is stringified before broadcast is
\* called, so broadcast reads no senderConfig off it and skips no peer
broadcastEntry(s, entry) ==
  SendEach(s, s.peers, "",
           [type |-> "newEntry", data |-> entry, senderConfig |-> s.config.id,
            messageId |-> FreshMessageId])

\* P2PService.broadcastBlock: stringified before broadcast, as above
broadcastBlock(s, b) ==
  SendEach(s, s.peers, "",
           [type |-> "newBlock", data |-> b, senderConfig |-> s.config.id,
            messageId |-> FreshMessageId])

-----------------------------------------------------------------------------
(* Blockchain.addBlock up to its first suspension, and the DataHandler *)

\* Blockchain.addBlock(data), the part that runs in the caller's step: the
\* guard, blockCreationStarted, createBlock's construction of the block and
\* mineBlock up to its first yield or its return.
addBlock(s, data) ==
  IF s.blockCreationInProgress THEN s
  ELSE
    LET previousBlock == getLatestBlock(s.chain)
        newBlock == ProofOfWorkBlock(Len(s.chain), data, previousBlock.hash,
                                     s.now, s.config.id,
                                     s.config.ownerAddress, 0,
                                     ConsensusDifficulty(s.config))
        m == mineBlock(newBlock, FALSE)
        s1 == Emit([s EXCEPT !.blockCreationInProgress = TRUE],
                   "blockCreationStarted", Len(data))
    IN  [s1 EXCEPT !.currentMiningBlock =
                      <<[blk |-> m.blk, stopMining |-> FALSE]>>,
                   !.pcOwn = IF m.yielded THEN "mining" ELSE "mined"]

\* a checkAndInitiateBlockCreation that never starts a block
checkAndInitiateBlockCreationNever(s) == s

\* a checkAndInitiateBlockCreation that waits for one entry more
checkAndInitiateBlockCreationAbove(s) ==
  IF /\ Len(s.entryPool) > s.config.minEntriesPerBlock
     /\ ~s.blockCreationInProgress
    THEN addBlock(s, s.entryPool)
    ELSE s

\* DataHandler.checkAndInitiateBlockCreation
checkAndInitiateBlockCreation(s) ==
  IF /\ Len(s.entryPool) >= s.config.minEntriesPerBlock
     /\ ~s.blockCreationInProgress
    THEN addBlock(s, s.entryPool)
    ELSE s

\* this.entryPool.has(entryId)
PoolHas(pool, entryId) == \E i \in 1..Len(pool) : pool[i].entryId = entryId

\* if (!entry.entryId) entry.entryId = nanoid(): `fresh` is the id drawn
WithEntryId(entry, fresh) ==
  IF entry.entryId = NoId THEN [entry EXCEPT !.entryId = fresh] ELSE entry

\* addPendingEntry without its look-up of the entryId in the pool
addPendingEntryUnchecked(s, entry0, fresh) ==
  LET entry == WithEntryId(entry0, fresh)
  IN  IF validatePendingEntry(entry, s.now)
        THEN checkAndInitiateBlockCreation(
               [s EXCEPT !.entryPool = Append(@, entry)])
        ELSE s

\* DataHandler.addPendingEntry
addPendingEntry(s, entry0, fresh) ==
  LET entry == WithEntryId(entry0, fresh)
  IN  IF ~PoolHas(s.entryPool, entry.entryId)
        THEN IF validatePendingEntry(entry, s.now)
               THEN checkAndInitiateBlockCreation(
                      [s EXCEPT !.entryPool = Append(@, entry)])
               ELSE s
        ELSE s

\* Blockchain.addEntry, with NetworkNode's entryAdded listener
\* (broadcastEntry)
addEntry(s, entry0, fresh) ==
  LET entry == WithEntryId(entry0, fresh)
      s1 == addPendingEntry(s, entry, fresh)
  IN  broadcastEntry(Emit(s1, "entryAdded", entry.entryId), entry)

\* a removeProcessedTransactions that empties the pool
clearProcessedTransactions(pool, b) == <<>>

\* a removeProcessedTransactions that removes nothing
keepProcessedTransactions(pool, b) == pool

\* DataHandler.removeProcessedTransactions; the data of every block here is
\* an array of entries (the genesis block's is config.genesisEntries), never
\* the string "Genesis Block" that the code tests for
removeProcessedTransactions(pool, b) ==
  SelectSeq(pool, LAMBDA e :
              \A j \in 1..Len(b.data) : b.data[j].entryId # e.entryId)

RECURSIVE updateEntryPoolWithNewChain(_, _)
\* DataHandler.updateEntryPoolWithNewChain
updateEntryPoolWithNewChain(pool, newChain) ==
  IF newChain = <<>> THEN pool
  ELSE updateEntryPoolWithNewChain(
         removeProcessedTransactions(pool, Head(newChain)), Tail(newChain))

\* a listener that leaves the stop flag alone
StopMiningIgnored(s) == s

\* ProofOfWorkConsensus's listener of peerBlockAdded and of
\* newPeerChainAccepted
StopMining(s) ==
  IF s.currentMiningBlock # <<>>
    THEN [s EXCEPT !.currentMiningBlock[1].stopMining = TRUE]
    ELSE s

\* emit("blockCreationEnded", block ? block : null) with DataHandler's
\* listener; b is <<>> for null
EmitBlockCreationEnded(s, b) ==
  LET s1 == Emit(s, "blockCreationEnded",
                 IF b = <<>> THEN -1 ELSE b[1].index)
      s2 == IF b = <<>> THEN s1
            ELSE [s1 EXCEPT !.entryPool = removeProcessedTransactions(@, b[1])]
  IN  checkAndInitiateBlockCreation(s2)

\* emit("peerBlockAdded", receivedBlock): the listeners in the order they
\* were registered (consensus, data handler, network node)
EmitPeerBlockAdded(s, b) ==
  LET s1 == StopMining(Emit(s, "peerBlockAdded", b.index))
      s2 == [s1 EXCEPT !.entryPool = removeProcessedTransactions(@, b)]
  IN  checkAndInitiateBlockCreation(s2)

\* emit("newPeerChainAccepted", newChain): consensus, then data handler
EmitNewPeerChainAccepted(s, newChain) ==
  LET s1 == StopMining(Emit(s, "newPeerChainAccepted", Len(newChain)))
  IN  [s1 EXCEPT !.entryPool = updateEntryPoolWithNewChain(@, newChain)]

-----------------------------------------------------------------------------
(* StandardMiningReward *)

fixedReward == 50               \* StandardMiningReward: config.fixedReward || 50
IncentiveFrom == 7              \* processIncentive: block.index >= 7
IncentiveLag == 6               \* processIncentive: block.index - 6

\* nanoid() for the reward entry of the block at `index`: an id no submitted
\* entry carries
RewardEntryId(index) == 100 + index

\* StandardMiningReward.distributeIncentive: the entry handed to addEntry
IncentiveEntry(targetBlock, incentive, t) ==
  LET unhashedEntry ==
        [from |-> "INCENTIVE", to |-> targetBlock.ownerAddress,
         amount |-> incentive, type |-> "crypto", initiationTimestamp |-> t,
         data |-> <<"incentive", targetBlock.index>>]
  IN  [entryId |-> NoId, from |-> unhashedEntry.from, to |-> unhashedEntry.to,
       amount |-> unhashedEntry.amount, type |-> unhashedEntry.type,
       initiationTimestamp |-> unhashedEntry.initiationTimestamp,
       data |-> unhashedEntry.data,
       hash |-> <<unhashedEntry.from, unhashedEntry.to, unhashedEntry.amount,
                  unhashedEntry.type, unhashedEntry.initiationTimestamp,
                  unhashedEntry.data>>,
       signature |-> <<>>]

\* processIncentive crediting the owner of the committed block itself
processIncentiveOfBlock(s, b) ==
  IF b.index >= IncentiveFrom
    THEN LET s1 == addEntry(s, IncentiveEntry(b, fixedReward, s.now),
                            RewardEntryId(b.index))
         IN  Emit(s1, "incentiveProcessed", b.index)
    ELSE s

\* StandardMiningReward.processIncentive, with Blockchain.addBlock's emit of
\* incentiveProcessed when it succeeds
processIncentive(s, b) ==
  IF b.index >= IncentiveFrom /\ b.index - IncentiveLag < Len(s.chain)
    THEN LET targetBlock == s.chain[b.index - IncentiveLag + 1]
             s1 == addEntry(s, IncentiveEntry(targetBlock, fixedReward, s.now),
                            RewardEntryId(targetBlock.index))
         IN  Emit(s1, "incentiveProcessed", targetBlock.index)
    ELSE s

-----------------------------------------------------------------------------
(* Blockchain.addBlock after createBlock, addPeerBlock, replaceChain *)

\* a finally block of addBlock that leaves the two flags as they are
addBlockFinallyKeepsFlags(s) ==
  EmitBlockCreationEnded([s EXCEPT !.pcOwn = "idle", !.block = <<>>], s.block)

\* the finally block of addBlock
addBlockFinally(s) ==
  EmitBlockCreationEnded(
    [s EXCEPT !.blockCreationInProgress = FALSE,
              !.processingOwnBlock = FALSE,
              !.pcOwn = "idle", !.block = <<>>],
    s.block)

\* createBlock after mineBlock returned (minedSuccessfully is the value it
\* returned), and addBlock from there to its await of saveBlock
addBlockAfterMining(s, minedSuccessfully) ==
  LET s1 == [s EXCEPT !.currentMiningBlock = <<>>,
                      !.block = IF minedSuccessfully
                                  THEN <<s.currentMiningBlock[1].blk>>
                                  ELSE <<>>]
  IN  IF s1.block = <<>> \/ s1.processingPeerBlock \/ s1.processingPeerChain
        THEN addBlockFinally(s1)
        ELSE [s1 EXCEPT !.processingOwnBlock = TRUE, !.pcOwn = "saving"]

\* addBlock after saveBlock: ok is whether the append to the file succeeded
addBlockAfterSave(s, ok) ==
  IF ok
    THEN LET b  == s.block[1]
             s1 == [s EXCEPT !.storage = @ \o saveBlock(b),
                             !.chain = Append(@, b)]
             s2 == broadcastBlock(Emit(s1, "blockCreated", b.index), b)
         IN  addBlockFinally(processIncentive(s2, b))
    ELSE addBlockFinally(s)

\* addPeerBlock up to its await of validateBlock, whose synchronous part
\* reads the tip
addPeerBlock(s, b) ==
  IF ~s.processingPeerBlock
    THEN [s EXCEPT !.processingPeerBlock = TRUE,
                   !.pcPeer = "validating",
                   !.receivedBlock =
                      <<[blk |-> b, blockIsValid |-> validateBlock(b, s.chain)]>>]
    ELSE s

\* the finally block of addPeerBlock
addPeerBlockFinally(s) ==
  [s EXCEPT !.processingPeerBlock = FALSE, !.pcPeer = "idle",
            !.receivedBlock = <<>>]

\* addPeerBlock from the result of validateBlock to its await of saveBlock
addPeerBlockAfterValidate(s) ==
  IF /\ s.receivedBlock[1].blockIsValid
     /\ ~s.processingOwnBlock
     /\ ~s.processingPeerChain
    THEN [s EXCEPT !.pcPeer = "saving"]
    ELSE addPeerBlockFinally(s)

\* addPeerBlock after saveBlock
addPeerBlockAfterSave(s, ok) ==
  IF ok
    THEN LET b  == s.receivedBlock[1].blk
             s1 == [s EXCEPT !.storage = @ \o saveBlock(b),
                             !.chain = Append(@, b)]
         IN  addPeerBlockFinally(EmitPeerBlockAdded(s1, b))
    ELSE addPeerBlockFinally(s)

\* replaceChain without its length check and its validateChain check
replaceChainUnchecked(s, newChain) ==
  IF ~s.processingPeerChain
    THEN [s EXCEPT !.processingPeerChain = TRUE,
                   !.chain = newChain,
                   !.fileWrite = <<saveBlockchain(newChain)>>,
                   !.pcChain = "saving"]
    ELSE s

\* replaceChain without its length check
replaceChainAnyLength(s, newChain) ==
  IF ~s.processingPeerChain
    THEN IF ~validateChain(newChain).isValid THEN s
         ELSE [s EXCEPT !.processingPeerChain = TRUE,
                        !.chain = newChain,
                        !.fileWrite = <<saveBlockchain(newChain)>>,
                        !.pcChain = "saving"]
    ELSE s

\* replaceChain up to its await of saveBlockchain, which serializes
\* this.chain before it suspends
replaceChain(s, newChain) ==
  IF ~s.processingPeerChain
    THEN IF Len(newChain) <= Len(s.chain) THEN s
         ELSE IF ~validateChain(newChain).isValid THEN s
         ELSE [s EXCEPT !.processingPeerChain = TRUE,
                        !.chain = newChain,
                        !.fileWrite = <<saveBlockchain(newChain)>>,
                        !.pcChain = "saving"]
    ELSE s

\* replaceChain after saveBlockchain; newChain and this.chain are one array,
\* so the event carries whatever was pushed onto it meanwhile
replaceChainAfterSave(s, ok) ==
  LET s1 == IF ok
              THEN EmitNewPeerChainAccepted(
                     [s EXCEPT !.storage = s.fileWrite[1]], s.chain)
              ELSE s
  IN  [s1 EXCEPT !.processingPeerChain = FALSE, !.pcChain = "idle",
                 !.fileWrite = <<>>]

-----------------------------------------------------------------------------
(* P2PService *)

PeersHas(s, id) == \E i \in 1..Len(s.peers) : s.peers[i] = id

HistoryIds(h) == {x.messageId : x \in h}

\* P2PService.addToMessageHistory: the id, and when its setTimeout is due
addToMessageHistory(s, messageId) ==
  [s EXCEPT !.messageHistory =
               @ \cup {[messageId |-> messageId, due |-> s.now + messageTimeout]},
            !.handled = @ \cup {messageId}]

\* P2PService.requestFullChain
requestFullChain(s, senderId) ==
  IF PeersHas(s, senderId)
    THEN Send(s, senderId,
              [type |-> "requestFullChain", data |-> <<>>,
               senderConfig |-> s.config.id, messageId |-> FreshMessageId])
    ELSE s

\* P2PService.sendFullChain
sendFullChain(s, receiverId) ==
  IF PeersHas(s, receiverId)
    THEN Send(s, receiverId,
              [type |-> "fullChain", data |-> s.chain,
               senderConfig |-> s.config.id, messageId |-> FreshMessageId])
    ELSE s

\* P2PService.handleFullChain
handleFullChain(s, msg) ==
  LET receivedChain == msg.data
  IN  IF /\ validateChain(receivedChain).isValid
         /\ Len(receivedChain) > Len(s.chain)
        THEN replaceChain(s, receivedChain)
        ELSE s

\* handleNewBlock with an invalid block dropped without gossip
handleNewBlockDropsInvalid(s, msg) ==
  LET latestBlock == getLatestBlock(s.chain)
  IN  IF msg.data.index > latestBlock.index + 1
        THEN broadcast(requestFullChain(s, msg.senderConfig), msg)
        ELSE IF validateBlock(msg.data, s.chain)
               THEN broadcast(addPeerBlock(s, msg.data), msg)
               ELSE s

\* the newBlock case of handleNonHandshakeMessage; the continuation of its
\* await of validateBlock runs in the same step
handleNewBlock(s, msg) ==
  LET latestBlock == getLatestBlock(s.chain)
  IN  IF msg.data.index > latestBlock.index + 1
        THEN broadcast(requestFullChain(s, msg.senderConfig), msg)
        ELSE IF validateBlock(msg.data, s.chain)
               THEN broadcast(addPeerBlock(s, msg.data), msg)
               ELSE broadcast(s, msg)

\* the switch of handleNonHandshakeMessage, for a message that was not
\* dropped; `fresh` is the id nanoid() yields if the entry of a newEntry
\* message has none
handleMessageType(s, msg, fresh) ==
  CASE msg.type = "newEntry" ->
         broadcast(addPendingEntry(s, msg.data, fresh),
                   [msg EXCEPT !.data = WithEntryId(@, fresh)])
    [] msg.type = "requestFullChain" -> sendFullChain(s, msg.senderConfig)
    [] msg.type = "fullChain" -> handleFullChain(s, msg)
    [] msg.type = "newBlock" -> handleNewBlock(s, msg)
    [] OTHER -> broadcast(s, msg)

\* handleNonHandshakeMessage without its look-up in messageHistory
handleNonHandshakeMessageUnfiltered(s, msg, fresh) ==
  handleMessageType(addToMessageHistory(s, msg.messageId), msg, fresh)

\* P2PService.handleNonHandshakeMessage
handleNonHandshakeMessage(s, msg, fresh) ==
  IF msg.messageId \notin HistoryIds(s.messageHistory)
    THEN handleMessageType(addToMessageHistory(s, msg.messageId), msg, fresh)
    ELSE s

-----------------------------------------------------------------------------
(* What the environment offers: entries, peer blocks, peer chains, messages *)

\* a well-formed entry of key K1, hashed and signed by K1
UserEntry(entryId, t) ==
  LET e == [entryId |-> entryId, from |-> "K1", to |-> "K2", amount |-> 1,
            type |-> "crypto", initiationTimestamp |-> t, data |-> <<>>,
            hash |-> <<>>, signature |-> <<>>]
      h == [e EXCEPT !.hash = hashEntry(e)]
  IN  [h EXCEPT !.signature = Sign("K1", signedEntry(h))]

\* the amount changed after hashing and signing
TamperedEntry(entryId, t) == [UserEntry(entryId, t) EXCEPT !.amount = 2]

\* from names K1, but K2 signed
WrongKeyEntry(entryId, t) ==
  [UserEntry(entryId, t) EXCEPT
     !.signature = Sign("K2", signedEntry(UserEntry(entryId, t)))]

\* an unsigned entry that names the sentinel ICO as its sender
SentinelEntry(entryId, t) ==
  LET e == [UserEntry(entryId, t) EXCEPT !.from = "ICO", !.signature = <<>>]
  IN  [e EXCEPT !.hash = hashEntry(e)]

\* the entries a client or a peer may hand to the node at clock value t:
\* well-formed ones with each id and with none, and under one id a tampered
\* one, a wrongly signed one and a stale one; a sentinel one under another
SubmittedEntries(t) ==
  {UserEntry(id, t) : id \in EntryIds \cup {NoId}}
    \cup {TamperedEntry(1, t), WrongKeyEntry(1, t),
          UserEntry(1, t - MAX_TIME_DIFF - 1), SentinelEntry(MaxEntryId, t)}

\* the ids nanoid() may yield for entry e: none is in use
FreshIds(s, e) ==
  IF e.entryId # NoId THEN {NoId}
  ELSE {id \in EntryIds :
          /\ ~PoolHas(s.entryPool, id)
          /\ \A i \in 1..Len(s.chain) :
               \A j \in 1..Len(s.chain[i].data) :
                 s.chain[i].data[j].entryId # id}

\* a block of peer B on top of block `prev`
PeerBlock(prev, data, t) ==
  ProofOfWorkBlock(prev.index + 1, data, prev.hash, t, "B", "KB", 0,
                   ConsensusDifficulty(Config))

\* the blocks a peer may send when the node's chain is c: on the tip, with a
\* forged digest, ahead of the tip, on the block before the tip, and on the
\* tip with a timestamp at and just inside the backward limit
PeerBlocks(c, t) ==
  LET tip == getLatestBlock(c)
  IN  {PeerBlock(tip, <<>>, t),
       PeerBlock(tip, <<UserEntry(1, 0)>>, t),
       [PeerBlock(tip, <<>>, t) EXCEPT !.hash = <<"forged">>],
       PeerBlock(PeerBlock(tip, <<>>, t), <<>>, t),
       PeerBlock(c[IF Len(c) > 1 THEN Len(c) - 1 ELSE 1], <<>>, t),
       PeerBlock(tip, <<>>, tip.timestamp + MAX_TIMESTEP_BACKWARD),
       PeerBlock(tip, <<>>, tip.timestamp + MAX_TIMESTEP_BACKWARD + 1)}

RECURSIVE ForkChain(_)
\* the chain of peer B: n blocks on the common genesis
ForkChain(n) ==
  IF n = 1 THEN <<createGenesisBlock(Config)>>
  ELSE LET c == ForkChain(n - 1)
       IN  Append(c, PeerBlock(c[n - 1],
                               IF n = 2 THEN <<UserEntry(1, 0)>> ELSE <<>>, 0))

\* the chains a peer may send when the node's chain is c: B's own chain at
\* each length, c with one more block, and longer chains that are broken in
\* a link, in a digest or in a timestamp
PeerChains(c, t) ==
  LET tip == getLatestBlock(c)
  IN  {ForkChain(n) : n \in 1..MaxChain}
        \cup {Append(c, PeerBlock(tip, <<>>, t)),
              [ForkChain(MaxChain) EXCEPT ![MaxChain].previousHash = <<"unknown">>],
              Append(c, [PeerBlock(tip, <<>>, t) EXCEPT !.hash = <<"forged">>]),
              Append(c, PeerBlock(tip, <<>>,
                                  tip.timestamp + MAX_TIMESTEP_BACKWARD))}

\* the non-handshake messages that may arrive from peer B; D is a node that
\* is no peer of this one (its messages reach the node relayed), and it
\* announces blocks and asks for the chain
Messages(s) ==
  LET Envelope(type, data, senders) ==
        {[type |-> type, data |-> data, senderConfig |-> sender,
          messageId |-> id] : sender \in senders, id \in 1..MaxMsgId}
  IN  UNION ({Envelope("newEntry", e, {"B"}) : e \in SubmittedEntries(s.now)}
             \cup {Envelope("newBlock", b, {"B"})
                     : b \in PeerBlocks(s.chain, s.now)}
             \cup {Envelope("newBlock",
                            PeerBlock(PeerBlock(getLatestBlock(s.chain), <<>>,
                                                s.now), <<>>, s.now), {"D"})}
             \cup {Envelope("fullChain", c, {"B"})
                     : c \in PeerChains(s.chain, s.now)}
             \cup {Envelope("requestFullChain", <<>>, {"B", "D"})}
             \cup {Envelope("ping", <<>>, {"B"})})

-----------------------------------------------------------------------------
(* The steps *)

\* the node when the constructors have run, before initialize(); file is
\* <<>> if there is no storage file and <<text>> if there is one
Constructed(file) ==
  [chain |-> <<>>, storage |-> IF file = <<>> THEN <<>> ELSE file[1],
   entryPool |-> <<>>, blockCreationInProgress |-> FALSE,
   processingPeerBlock |-> FALSE, processingOwnBlock |-> FALSE,
   processingPeerChain |-> FALSE, currentMiningBlock |-> <<>>,
   pcOwn |-> "idle", block |-> <<>>, pcPeer |-> "idle",
   receivedBlock |-> <<>>, pcChain |-> "idle", fileWrite |-> <<>>,
   messageHistory |-> {}, handled |-> {}, now |-> 0, loaded |-> 0,
   emitted |-> <<>>, sent |-> <<>>, lastCall |-> <<"constructor", "">>,
   config |-> Config, peers |-> Peers]

\* Blockchain.initialize with Blockchain.createGenesisBlock
initialize(s, file) ==
  LET l == loadBlockchain(file)
  IN  IF l.ok
        THEN Emit([s EXCEPT !.chain = l.blocks, !.loaded = Len(l.blocks),
                            !.lastCall = <<"initialize", "loaded">>],
                  "blockchainLoaded", Len(l.blocks))
        ELSE LET genesisBlock == createGenesisBlock(s.config)
             IN  Emit([s EXCEPT !.storage = @ \o saveBlock(genesisBlock),
                                !.chain = Append(@, genesisBlock),
                                !.lastCall = <<"initialize", "genesis">>],
                      "genesisBlockCreated", genesisBlock.index)

\* the node's variables have the values of s
NodeIs(s) ==
  /\ chain = s.chain
  /\ storage = s.storage
  /\ entryPool = s.entryPool
  /\ blockCreationInProgress = s.blockCreationInProgress
  /\ processingPeerBlock = s.processingPeerBlock
  /\ processingOwnBlock = s.processingOwnBlock
  /\ processingPeerChain = s.processingPeerChain
  /\ currentMiningBlock = s.currentMiningBlock
  /\ pcOwn = s.pcOwn
  /\ block = s.block
  /\ pcPeer = s.pcPeer
  /\ receivedBlock = s.receivedBlock
  /\ pcChain = s.pcChain
  /\ fileWrite = s.fileWrite
  /\ messageHistory = s.messageHistory
  /\ handled = s.handled
  /\ now = s.now
  /\ loaded = s.loaded
  /\ lastCall = s.lastCall

\* the node has started on `file`; it is connected to no second node
Start(file) ==
  /\ NodeIs(initialize(Constructed(file), file))
  /\ nodeB = <<>>
  /\ network = <<>>
  /\ peers = <<>>
  /\ sockets = <<>>

\* a node started where there is no storage file
Init == Start(<<>>)

Called(s, op, case) == [s EXCEPT !.lastCall = <<op, case>>]

\* the case an entry meets in addPendingEntry
EntryCase(s, e) ==
  IF PoolHas(s.entryPool, e.entryId) THEN "duplicate"
  ELSE IF validatePendingEntry(e, s.now) THEN "valid" ELSE "invalid"

\* the case a block meets in addPeerBlock
BlockCase(s, b) ==
  IF s.processingPeerBlock THEN "busy"
  ELSE IF validateBlock(b, s.chain) THEN "valid" ELSE "invalid"

\* the case a chain meets in replaceChain
ChainCase(s, c) ==
  IF s.processingPeerChain THEN "busy"
  ELSE IF Len(c) <= Len(s.chain) THEN "not longer"
  ELSE IF ~validateChain(c).isValid THEN "invalid" ELSE "accepted"

\* the case a message meets in handleNonHandshakeMessage
MessageCase(s, msg) ==
  IF msg.messageId \in HistoryIds(s.messageHistory) THEN "seen" ELSE msg.type

\* a continuation is waiting in the microtask queue: it runs before any
\* other callback
MicrotaskPending ==
  pcOwn \in {"mined", "cancelled"} \/ pcPeer = "validating"

\* a new request may arrive: the chain has grown by less than MaxChain - 1
\* blocks since the start
InputAllowed ==
  /\ ~MicrotaskPending
  /\ Len(chain) < MaxChain + (IF loaded > 0 THEN loaded - 1 ELSE 0)

\* WebService POST /entry: Blockchain.addEntry(req.body)
SubmitEntry ==
  /\ InputAllowed
  /\ \E e \in SubmittedEntries(now) : \E fresh \in FreshIds(State, e) :
       Becomes(Called(addEntry(State, e, fresh), "addEntry",
                      EntryCase(State, WithEntryId(e, fresh))))

\* a message arrives on a peer socket: P2PService.handleMessage
DeliverMessage ==
  /\ InputAllowed
  /\ \E msg \in Messages(State) :
       \E fresh \in (IF msg.type = "newEntry" THEN FreshIds(State, msg.data)
                     ELSE {NoId}) :
         Becomes(Called(handleNonHandshakeMessage(State, msg, fresh),
                        "handleNonHandshakeMessage", MessageCase(State, msg)))

\* Blockchain.addPeerBlock called by the embedding application
CallAddPeerBlock ==
  /\ InputAllowed
  /\ \E b \in PeerBlocks(chain, now) :
       Becomes(Called(addPeerBlock(State, b), "addPeerBlock",
                      BlockCase(State, b)))

\* Blockchain.replaceChain called by the embedding application
CallReplaceChain ==
  /\ InputAllowed
  /\ \E c \in PeerChains(chain, now) :
       Becomes(Called(replaceChain(State, c), "replaceChain",
                      ChainCase(State, c)))

\* the setImmediate callback of mineBlock: the loop runs to its next yield
\* or to its return
MineStep ==
  /\ ~MicrotaskPending
  /\ pcOwn = "mining"
  /\ \E m \in {mineBlock(currentMiningBlock[1].blk, currentMiningBlock[1].stopMining)} :
       Becomes(Called([State EXCEPT
                         !.currentMiningBlock[1].blk = m.blk,
                         !.pcOwn = IF m.yielded THEN "mining"
                                   ELSE IF m.ret THEN "mined"
                                   ELSE "cancelled"],
                      "mineBlock",
                      IF m.yielded THEN "yielded"
                      ELSE IF m.ret THEN "mined" ELSE "stopped"))

\* the continuation of createBlock and addBlock once mineBlock has returned
AddBlockResume ==
  /\ pcOwn \in {"mined", "cancelled"}
  /\ Becomes(Called(addBlockAfterMining(State, pcOwn = "mined"),
                    "addBlock", pcOwn))

\* the storage append of addBlock completes or fails
SaveOwnDone ==
  /\ ~MicrotaskPending
  /\ pcOwn = "saving"
  /\ \E ok \in BOOLEAN :
       Becomes(Called(addBlockAfterSave(State, ok), "addBlock",
                      IF ok THEN "saved" ELSE "save failed"))

\* the continuation of addPeerBlock once validateBlock has returned
AddPeerBlockResume ==
  /\ pcPeer = "validating"
  /\ Becomes(Called(addPeerBlockAfterValidate(State), "addPeerBlock",
                    "validated"))

\* the storage append of addPeerBlock completes or fails
SavePeerDone ==
  /\ ~MicrotaskPending
  /\ pcPeer = "saving"
  /\ \E ok \in BOOLEAN :
       Becomes(Called(addPeerBlockAfterSave(State, ok), "addPeerBlock",
                      IF ok THEN "saved" ELSE "save failed"))

\* the storage rewrite of replaceChain completes or fails
SaveChainDone ==
  /\ ~MicrotaskPending
  /\ pcChain = "saving"
  /\ \E ok \in BOOLEAN :
       Becomes(Called(replaceChainAfterSave(State, ok), "replaceChain",
                      IF ok THEN "saved" ELSE "save failed"))

\* the setTimeout callback of addToMessageHistory
HistoryTimeout ==
  /\ ~MicrotaskPending
  /\ \E h \in messageHistory :
       /\ now >= h.due
       /\ Becomes(Called([State EXCEPT !.messageHistory = @ \ {h}],
                         "messageHistory.delete", "due"))

\* time passes
Tick ==
  /\ ~MicrotaskPending
  /\ now < MaxTicks * TickMs
  /\ Becomes(Called([State EXCEPT !.now = @ + TickMs], "clock", "tick"))

Next ==
  \/ SubmitEntry
  \/ DeliverMessage
  \/ CallAddPeerBlock
  \/ CallReplaceChain
  \/ MineStep
  \/ AddBlockResume
  \/ SaveOwnDone
  \/ AddPeerBlockResume
  \/ SavePeerDone
  \/ SaveChainDone
  \/ HistoryTimeout
  \/ Tick

Spec == Init /\ [][Next]_vars

\* the storage append of addBlock completes
SaveOwnSucceeds ==
  /\ ~MicrotaskPending
  /\ pcOwn = "saving"
  /\ Becomes(Called(addBlockAfterSave(State, TRUE), "addBlock", "saved"))

\* a node that hears from no peer and whose storage works: entries are
\* submitted, the clock advances, and every callback that is due runs
NextSolo ==
  \/ SubmitEntry
  \/ MineStep
  \/ AddBlockResume
  \/ SaveOwnSucceeds
  \/ Tick

SpecSolo ==
  /\ Init
  /\ [][NextSolo]_vars
  /\ WF_vars(MineStep)
  /\ WF_vars(AddBlockResume)
  /\ WF_vars(SaveOwnSucceeds)

\* the storage append of addPeerBlock completes
SavePeerSucceeds ==
  /\ ~MicrotaskPending
  /\ pcPeer = "saving"
  /\ Becomes(Called(addPeerBlockAfterSave(State, TRUE), "addPeerBlock", "saved"))

\* the storage rewrite of replaceChain completes
SaveChainSucceeds ==
  /\ ~MicrotaskPending
  /\ pcChain = "saving"
  /\ Becomes(Called(replaceChainAfterSave(State, TRUE), "replaceChain", "saved"))

\* the node with a storage that never fails
NextStored ==
  \/ SubmitEntry
  \/ DeliverMessage
  \/ CallAddPeerBlock
  \/ CallReplaceChain
  \/ MineStep
  \/ AddBlockResume
  \/ SaveOwnSucceeds
  \/ AddPeerBlockResume
  \/ SavePeerSucceeds
  \/ SaveChainSucceeds
  \/ HistoryTimeout
  \/ Tick

SpecStored == Init /\ [][NextStored]_vars

\* the id of an entry that is submitted while a block is in creation
LateEntryId == MaxEntryId + 1

\* WebService POST /entry while a block is in creation
SubmitLateEntry ==
  /\ ~MicrotaskPending
  /\ blockCreationInProgress
  /\ \E e \in {UserEntry(LateEntryId, now)} :
       Becomes(Called(addEntry(State, e, NoId), "addEntry",
                      EntryCase(State, e)))

\* a node that hears from no peer: entries are submitted, also while a
\* block is mined and saved
NextBusy ==
  \/ SubmitEntry
  \/ SubmitLateEntry
  \/ MineStep
  \/ AddBlockResume
  \/ SaveOwnDone
  \/ Tick

SpecBusy == Init /\ [][NextBusy]_vars

\* nanoid() at peer B for its reward entry of the block at `index`
PeerRewardEntryId(index) == 200 + index

\* the newEntry message with the reward entry that peer B made for the block
\* at height h when it committed a block of its own at height h + IncentiveLag
PeerReward(s, h) ==
  [type |-> "newEntry",
   data |-> WithEntryId(IncentiveEntry(s.chain[h + 1], fixedReward, s.now),
                        PeerRewardEntryId(h)),
   senderConfig |-> "B", messageId |-> MaxMsgId + 1 + h]

\* peer B's reward entry for a block this node has rewarded arrives
DeliverPeerReward ==
  /\ ~MicrotaskPending
  /\ Len(chain) <= loaded + MaxChain - 1
  /\ \E h \in 1..(Len(chain) - 1 - IncentiveLag) :
       Becomes(Called(handleNonHandshakeMessage(State, PeerReward(State, h), NoId),
                      "handleNonHandshakeMessage", "newEntry"))

\* a node on a chain long enough to earn rewards, with a storage that works
\* and a peer that commits blocks of its own at the same heights
InitReward == Start(<<saveBlockchain(ForkChain(IncentiveFrom))>>)

NextReward ==
  \/ SubmitEntry
  \/ DeliverPeerReward
  \/ MineStep
  \/ AddBlockResume
  \/ SaveOwnSucceeds
  \/ HistoryTimeout
  \/ Tick

SpecReward == InitReward /\ [][NextReward]_vars

\* a node started on a storage file that holds a chain of peer B's, one
\* block short of the first height that earns an incentive or two short
InitLoaded ==
  \E n \in {IncentiveFrom - 1, IncentiveFrom} :
    Start(<<saveBlockchain(ForkChain(n))>>)

SpecLoaded == InitLoaded /\ [][Next]_vars

-----------------------------------------------------------------------------
(* Two connected nodes.  The variables of the node are node A; nodeB is a  *)
(* second node running the same code, as one state value; network holds   *)
(* the messages each node has put on its socket to the other, in order,   *)
(* the number of message ids drawn, and the entry ids clients submitted.  *)

\* the node as a peer of B alone
StateA == [State EXCEPT !.peers = <<"B">>]

\* node B when its constructors have run: its own id and address, A its peer
ConstructedB(file) ==
  [Constructed(file) EXCEPT !.config.id = "B", !.config.ownerAddress = "KB",
                            !.peers = <<"A">>]

\* the chain length node B starts with: the genesis alone, or a chain that
\* is more than one block ahead of A's
LengthsOfB == {1, 3}

Node(n) == IF n = "A" THEN StateA ELSE nodeB

\* a promise continuation is waiting at node s: it runs before any callback
Pending(s) == s.pcOwn \in {"mined", "cancelled"} \/ s.pcPeer = "validating"

\* nanoid() for the message with the placeholder id: an id not drawn before
Stamp(msg, drawn) ==
  IF msg.messageId = FreshMessageId
    THEN [msg EXCEPT !.messageId = MaxMsgId + drawn + 1] ELSE msg

RECURSIVE Post(_, _)
\* ws.send for each message a step put on a socket
Post(net, sent) ==
  IF sent = <<>> THEN net
  ELSE Post([net EXCEPT ![Head(sent).to] =
                           Append(@, Stamp(Head(sent).msg, net.ids)),
                        !.ids = @ + 1],
            Tail(sent))

\* a step of node n ends in state r: what it sent goes onto the sockets
PairBecomes(n, r, net) ==
  /\ network' = Post(net, r.sent)
  /\ UNCHANGED <<peers, sockets>>
  /\ IF n = "A"
       THEN NodeBecomes(r) /\ nodeB' = nodeB
       ELSE /\ nodeB' = [r EXCEPT !.emitted = <<>>, !.sent = <<>>]
            /\ UNCHANGED <<chain, storage, entryPool, blockCreationInProgress,
                           processingPeerBlock, processingOwnBlock,
                           processingPeerChain, currentMiningBlock, pcOwn,
                           block, pcPeer, receivedBlock, pcChain, fileWrite,
                           messageHistory, handled, now, loaded, lastCall>>

\* the callbacks and continuations the event loop of a node may have to run
Callbacks ==
  {"mineBlock", "addBlock", "saveBlock of addBlock", "addPeerBlock",
   "saveBlock of addPeerBlock", "saveBlockchain"}

CallbackDue(s, k) ==
  CASE k = "mineBlock" -> ~Pending(s) /\ s.pcOwn = "mining"
    [] k = "addBlock" -> s.pcOwn \in {"mined", "cancelled"}
    [] k = "saveBlock of addBlock" -> ~Pending(s) /\ s.pcOwn = "saving"
    [] k = "addPeerBlock" -> s.pcPeer = "validating"
    [] k = "saveBlock of addPeerBlock" -> ~Pending(s) /\ s.pcPeer = "saving"
    [] k = "saveBlockchain" -> ~Pending(s) /\ s.pcChain = "saving"

\* the mining loop of node s runs to its next yield or to its return
mineBlockStep(s) ==
  LET m == mineBlock(s.currentMiningBlock[1].blk,
                     s.currentMiningBlock[1].stopMining)
  IN  [s EXCEPT !.currentMiningBlock[1].blk = m.blk,
                !.pcOwn = IF m.yielded THEN "mining"
                          ELSE IF m.ret THEN "mined" ELSE "cancelled"]

\* callback k runs at node s; the storage works
RunCallback(s, k) ==
  CASE k = "mineBlock" -> mineBlockStep(s)
    [] k = "addBlock" -> addBlockAfterMining(s, s.pcOwn = "mined")
    [] k = "saveBlock of addBlock" -> addBlockAfterSave(s, TRUE)
    [] k = "addPeerBlock" -> addPeerBlockAfterValidate(s)
    [] k = "saveBlock of addPeerBlock" -> addPeerBlockAfterSave(s, TRUE)
    [] k = "saveBlockchain" -> replaceChainAfterSave(s, TRUE)

\* a client posts the next entry to node A
PairSubmit ==
  /\ ~Pending(StateA)
  /\ \E id \in EntryIds :
       /\ id = Cardinality(network.submitted) + 1
       /\ \E r \in {Called(addEntry(StateA, UserEntry(id, now), NoId),
                            "addEntry", "A")} :
            PairBecomes("A", r, [network EXCEPT !.submitted = @ \cup {id}])

\* the next message on the socket to node n arrives there
PairDeliver ==
  \E n \in {"A", "B"} :
    /\ ~Pending(Node(n))
    /\ network[n] # <<>>
    /\ \E r \in {Called(handleNonHandshakeMessage(Node(n), Head(network[n]),
                                                  NoId),
                         "handleNonHandshakeMessage", n)} :
         PairBecomes(n, r, [network EXCEPT ![n] = Tail(@)])

\* a callback that is due at node n runs
PairCallback ==
  \E n \in {"A", "B"} : \E k \in Callbacks :
    /\ CallbackDue(Node(n), k)
    /\ \E r \in {Called(RunCallback(Node(n), k), k, n)} :
         PairBecomes(n, r, network)

\* node A started without a storage file; node B started from a stored chain
\* on the same genesis
InitPair ==
  /\ NodeIs(initialize(Constructed(<<>>), <<>>))
  /\ \E n \in LengthsOfB :
       nodeB = initialize(ConstructedB(<<saveBlockchain(ForkChain(n))>>),
                          <<saveBlockchain(ForkChain(n))>>)
  /\ network = [A |-> <<>>, B |-> <<>>, ids |-> 0, submitted |-> {}]
  /\ peers = <<>>
  /\ sockets = <<>>

NextPair == PairSubmit \/ PairDeliver \/ PairCallback

SpecPair == InitPair /\ [][NextPair]_vars

\* nothing is in flight between the nodes and no callback is due at either
Quiescent ==
  /\ network.A = <<>>
  /\ network.B = <<>>
  /\ \A n \in {"A", "B"} : \A k \in Callbacks : ~CallbackDue(Node(n), k)

-----------------------------------------------------------------------------
(* Connections and the peer table.  peers[n] is the Map this.peers of node *)
(* n: a function from the ids it knows to the socket recorded for each.   *)
(* sockets is the sequence of connections made so far; the two ends of a  *)
(* connection are the WebSocket objects "client" (at the node that called *)
(* connectToPeer) and "server" (at the node that accepted it).  The node  *)
(* variables stay as the constructors left them.                          *)

Ids == {"A", "B"}               \* the nodes
MaxSockets == 3                 \* connections made in one behaviour

Sides == {"client", "server"}

Other(side) == IF side = "client" THEN "server" ELSE "client"

\* the state of the P2PServices: the peer tables and the sockets
P2P == [peers |-> peers, sockets |-> sockets]

\* the node that holds the end `side` of socket i
Holder(p, i, side) == p.sockets[i][side]

\* Map.has, Map.set, Map.delete
Has(map, id) == id \in DOMAIN map

MapSet(map, id, v) == [x \in DOMAIN map \cup {id} |-> IF x = id THEN v ELSE map[x]]

MapDelete(map, id) == [x \in DOMAIN map \ {id} |-> map[x]]

RECURSIVE MapDeleteAll(_, _)
MapDeleteAll(map, ids) ==
  IF ids = {} THEN map
  ELSE LET id == CHOOSE x \in ids : TRUE
       IN  MapDeleteAll(MapDelete(map, id), ids \ {id})

\* new WebSocket(peerAddress) in connectToPeer, before it has opened;
\* inbox[side] is what has been sent to the end `side` and not yet handled
\* there, onClose[side] the ids whose close listeners connectPeer has put on
\* that end, closeDue the ends whose "close" event has not fired yet,
\* errored the ends at which the socket has reported an error
NewSocket(a, b) ==
  [client |-> a, server |-> b, readyState |-> "CONNECTING",
   inbox |-> [client |-> <<>>, server |-> <<>>],
   onClose |-> [client |-> {}, server |-> {}], closeDue |-> {},
   errored |-> {}]

\* the message sendHandshake builds at node n
Handshake(n) == [type |-> "handshake", senderConfig |-> n, messageId |-> FreshMessageId]

\* P2PService.sendHandshake(ws), ws the end `side` of socket i
sendHandshake(p, i, side) ==
  [p EXCEPT !.sockets[i].inbox[Other(side)] =
              Append(@, Handshake(Holder(p, i, side)))]

\* P2PService.connectPeer(ws, senderConfig): both branches set the entry;
\* a close listener for the id is put on ws at every call
connectPeer(p, i, side, senderConfig) ==
  LET n == Holder(p, i, side)
  IN  [p EXCEPT !.peers[n] = MapSet(@, senderConfig, <<i, side>>),
                !.sockets[i].onClose[side] = @ \cup {senderConfig}]

\* handleHandshake that never replies
handleHandshakeSilent(p, i, side, msg) == connectPeer(p, i, side, msg.senderConfig)

\* P2PService.handleHandshake(ws, msg)
handleHandshake(p, i, side, msg) ==
  LET n == Holder(p, i, side)
  IN  connectPeer(IF ~Has(p.peers[n], msg.senderConfig)
                    THEN sendHandshake(p, i, side) ELSE p,
                  i, side, msg.senderConfig)

\* P2PService.handleMessage(ws, message) at the end `side` of socket i, for
\* the oldest message sent to that end: a handshake goes to handleHandshake
\* and nowhere else
handleMessage(p, i, side) ==
  LET msg == Head(p.sockets[i].inbox[side])
      q == [p EXCEPT !.sockets[i].inbox[side] = Tail(@)]
  IN  IF msg.type = "handshake" THEN handleHandshake(q, i, side, msg) ELSE q

\* the close listeners of the end `side` of socket i run: each deletes the
\* entry of the id it was registered for
closeListeners(p, i, side) ==
  LET n == Holder(p, i, side)
  IN  [p EXCEPT !.peers[n] = MapDeleteAll(@, p.sockets[i].onClose[side]),
                !.sockets[i].closeDue = @ \ {side}]

\* the node variables, which no connection step changes
nodeVars == <<chain, storage, entryPool, blockCreationInProgress, processingPeerBlock, processingOwnBlock, processingPeerChain, currentMiningBlock, pcOwn, block, pcPeer, receivedBlock, pcChain, fileWrite, messageHistory, handled, now, loaded, lastCall, nodeB, network>>

P2PBecomes(p) ==
  /\ peers' = p.peers
  /\ sockets' = p.sockets
  /\ UNCHANGED nodeVars

\* P2PService.connectToPeer: node a dials node b
connectToPeer ==
  /\ Len(sockets) < MaxSockets
  /\ \E a \in Ids : \E b \in Ids \ {a} :
       P2PBecomes([P2P EXCEPT !.sockets = Append(@, NewSocket(a, b))])

\* the "open" event of connectToPeer: the dialling node sends its handshake
onOpen ==
  \E i \in 1..Len(sockets) :
    /\ sockets[i].readyState = "CONNECTING"
    /\ P2PBecomes(sendHandshake([P2P EXCEPT !.sockets[i].readyState = "OPEN"],
                                i, "client"))

\* the "message" event at one end of an open socket
onMessage ==
  \E i \in 1..Len(sockets) : \E side \in Sides :
    /\ sockets[i].readyState = "OPEN"
    /\ sockets[i].inbox[side] # <<>>
    /\ P2PBecomes(handleMessage(P2P, i, side))

\* an open connection closes: what was in flight is lost, and the "close"
\* event is due at both ends
closeSocket ==
  \E i \in 1..Len(sockets) :
    /\ sockets[i].readyState = "OPEN"
    /\ P2PBecomes([P2P EXCEPT !.sockets[i].readyState = "CLOSED",
                              !.sockets[i].inbox = [client |-> <<>>, server |-> <<>>],
                              !.sockets[i].closeDue = Sides])

\* the "close" event at one end of a closed socket
onClose ==
  \E i \in 1..Len(sockets) : \E side \in sockets[i].closeDue :
    P2PBecomes(closeListeners(P2P, i, side))

MaxErrors == 1                  \* sockets that report an error in one behaviour

\* the process of node n exits: its peer table is gone and its ends of all
\* its connections with it, so each of them closes for the node at the other
\* end
exit(p, n) ==
  [p EXCEPT !.peers[n] = <<>>,
            !.sockets = [j \in DOMAIN p.sockets |->
                           IF n \in {p.sockets[j].client, p.sockets[j].server}
                             THEN [p.sockets[j] EXCEPT
                                     !.readyState = "CLOSED",
                                     !.inbox = [client |-> <<>>, server |-> <<>>],
                                     !.closeDue =
                                        IF p.sockets[j].readyState = "CLOSED"
                                          THEN @ \ {IF p.sockets[j].client = n THEN "client" ELSE "server"}
                                          ELSE {IF p.sockets[j].client = n THEN "server" ELSE "client"}]
                             ELSE p.sockets[j]]]

\* the "error" event at the end `side` of socket i.  connectToPeer has put a
\* listener on the client end, which logs the error; the ws library then
\* closes the connection.  A socket accepted by the server has no "error"
\* listener, so the event is thrown out of the emitter and the process exits
errorEvent(p, i, side) ==
  LET q == [p EXCEPT !.sockets[i].errored = @ \cup {side}]
  IN  IF side = "client"
        THEN [q EXCEPT !.sockets[i].readyState = "CLOSED",
                       !.sockets[i].inbox = [client |-> <<>>, server |-> <<>>],
                       !.sockets[i].closeDue = Sides]
        ELSE exit(q, Holder(p, i, side))

\* a socket reports an error at one of its ends
onError ==
  \E i \in 1..Len(sockets) : \E side \in Sides :
    /\ sockets[i].readyState = "OPEN"
    /\ Cardinality({j \in 1..Len(sockets) : sockets[j].errored # {}}) < MaxErrors
    /\ P2PBecomes(errorEvent(P2P, i, side))

InitP2P ==
  /\ NodeIs(Constructed(<<>>))
  /\ nodeB = <<>>
  /\ network = <<>>
  /\ peers = [n \in Ids |-> <<>>]
  /\ sockets = <<>>

NextP2P == connectToPeer \/ onOpen \/ onMessage \/ closeSocket \/ onClose

\* every event that is due is delivered
SpecP2P ==
  /\ InitP2P
  /\ [][NextP2P]_vars
  /\ WF_vars(onOpen)
  /\ WF_vars(onMessage)
  /\ WF_vars(onClose)

\* Node B with two nodes that dial it, and sockets that may report errors
Dialling == {"A", "C"}

\* node n has not exited
Alive(n) ==
  \A i \in 1..Len(sockets) :
    ~(sockets[i].server = n /\ "server" \in sockets[i].errored)

\* P2PService.connectToPeer at a node with seed peer B
connectToSeedPeers ==
  /\ Len(sockets) < MaxSockets
  /\ Alive("B")
  /\ \E a \in Dialling :
       P2PBecomes([P2P EXCEPT !.sockets = Append(@, NewSocket(a, "B"))])

InitSocketError ==
  /\ NodeIs(Constructed(<<>>))
  /\ nodeB = <<>>
  /\ network = <<>>
  /\ peers = [n \in Dialling \cup {"B"} |-> <<>>]
  /\ sockets = <<>>

NextSocketError ==
  connectToSeedPeers \/ onOpen \/ onMessage \/ closeSocket \/ onClose \/ onError

SpecSocketError == InitSocketError /\ [][NextSocketError]_vars

-----------------------------------------------------------------------------
(* Properties *)

\* C1: in every reachable state every block of the in-memory chain after the
\* genesis block has its position as index, has the hash of the block before
\* it as previousHash, and has a stored hash equal to the hash recomputed
\* from its fields.
C1_ChainLinked ==
  \A i \in 2..Len(chain) :
    /\ chain[i].index = i - 1
    /\ chain[i].previousHash = chain[i - 1].hash
    /\ validateBlockHash(chain[i])

\* addBlock between its post-mining flag check and its push
OwnBlockCommitting == pcOwn = "saving"

\* addPeerBlock between its flag check and its push
PeerBlockCommitting == pcPeer = "saving"

\* replaceChain between overwriting the chain and the end of the rewrite
PeerChainCommitting == pcChain = "saving"

\* C2: at most one of the own-block append, the peer-block append and the
\* peer-chain replacement is committing at a time.
C2_OneCommitAtATime ==
  /\ ~(OwnBlockCommitting /\ PeerBlockCommitting)
  /\ ~(OwnBlockCommitting /\ PeerChainCommitting)
  /\ ~(PeerBlockCommitting /\ PeerChainCommitting)

\* C3: every step that pushes a locally mined block pushes it onto the tip
\* it was mined on: the block's previousHash is the hash of the chain's last
\* block and its index is that block's index plus one.
C3_OwnBlockOnItsTip ==
  [][(pcOwn = "saving" /\ chain' = Append(chain, block[1]))
       => /\ block[1].previousHash = getLatestBlock(chain).hash
          /\ block[1].index = getLatestBlock(chain).index + 1]_vars

\* C4: a step that emits peerBlockAdded or newPeerChainAccepted while
\* createBlock is suspended in mining sets the stop flag of the current
\* mining block; with the flag set the next run of the mining loop returns
\* false; and addBlock, resumed with the null that createBlock then returns,
\* appends no block to the chain or to the storage.
C4_MiningCancelled ==
  [][/\ (/\ pcOwn = "mining"
         /\ \/ lastCall' = <<"addPeerBlock", "saved">>
            \/ lastCall' = <<"replaceChain", "saved">>)
          => /\ currentMiningBlock' # <<>>
             /\ currentMiningBlock'[1].stopMining
             /\ pcOwn' = "mining"
     /\ (/\ pcOwn = "mining"
         /\ currentMiningBlock[1].stopMining
         /\ lastCall'[1] = "mineBlock")
          => pcOwn' = "cancelled"
     /\ pcOwn = "cancelled"
          => /\ chain' = chain
             /\ storage' = storage
             /\ block' = <<>>]_vars

\* a mining that was cancelled after a peer's block went onto the chain
C4_Witness ==
  /\ lastCall = <<"addBlock", "cancelled">>
  /\ Len(chain) > 1
  /\ getLatestBlock(chain).blockCreator = "B"

\* C5: in every reachable state at most one of processingOwnBlock,
\* processingPeerBlock and processingPeerChain is true.
C5_OneFlag ==
  /\ ~(processingOwnBlock /\ processingPeerBlock)
  /\ ~(processingOwnBlock /\ processingPeerChain)
  /\ ~(processingPeerBlock /\ processingPeerChain)

\* C6: in every reachable state, replaceChain called with a chain that is
\* not longer than the node's or that fails validateChain returns with
\* nothing changed: chain, storage, pool, flags, the mining block and its
\* stop flag are as before, no event was emitted and nothing was sent.
C6_RejectedChainChangesNothing ==
  \A c \in PeerChains(chain, now) :
    (Len(c) <= Len(chain) \/ ~validateChain(c).isValid)
      => replaceChain(State, c) = State

\* an invalid longer chain was handed to replaceChain while the node was
\* mining and held entries
C6_Witness ==
  /\ lastCall = <<"replaceChain", "invalid">>
  /\ pcOwn = "mining"
  /\ ~currentMiningBlock[1].stopMining
  /\ entryPool # <<>>

\* the entries of SubmittedEntries that carry an id and fail validation
InvalidEntries(t) ==
  {e \in SubmittedEntries(t) :
     e.entryId # NoId /\ ~validatePendingEntry(e, t)}

\* C7: in every reachable state, addEntry of an entry that fails validation
\* leaves the pool as it was, emits no event and sends no message; and a
\* newEntry message that carries such an entry leaves the pool as it was and
\* is sent on to no peer.
C7_InvalidEntryNotAnnounced ==
  \A e \in InvalidEntries(now) :
    /\ LET r == addEntry(State, e, NoId)
       IN  r.entryPool = entryPool /\ r.emitted = <<>> /\ r.sent = <<>>
    /\ \A id \in (1..MaxMsgId) \ HistoryIds(messageHistory) :
         LET r == handleNonHandshakeMessage(
                    State, [type |-> "newEntry", data |-> e,
                            senderConfig |-> "B", messageId |-> id], NoId)
         IN  r.entryPool = entryPool /\ r.sent = <<>>

\* C8: in every reachable state, submitting an entry whose entryId is in the
\* pool leaves the pool as it was and starts no block creation: addPendingEntry
\* changes nothing, and addEntry leaves the pool, the block-creation flag and
\* the mining block as they were and emits no blockCreationStarted.
C8_DuplicateEntryId ==
  \A e \in SubmittedEntries(now) :
    (\E i \in 1..Len(entryPool) : entryPool[i].entryId = e.entryId)
      => /\ addPendingEntry(State, e, NoId) = State
         /\ LET r == addEntry(State, e, NoId)
            IN  /\ r.entryPool = entryPool
                /\ r.blockCreationInProgress = blockCreationInProgress
                /\ r.currentMiningBlock = currentMiningBlock
                /\ r.pcOwn = pcOwn
                /\ \A k \in 1..Len(r.emitted) :
                     r.emitted[k][1] # "blockCreationStarted"

\* an entry was submitted under an entryId that the pool holds
C8_Witness ==
  /\ lastCall = <<"addEntry", "duplicate">>
  /\ entryPool # <<>>

\* C9 as stated: in every reachable state, handling a message whose
\* messageId the node has processed before changes nothing and sends nothing.
C9_ProcessedIdIsNoOp ==
  \A msg \in Messages(State) :
    msg.messageId \in handled
      => \A fresh \in EntryIds \cup {NoId} :
           handleNonHandshakeMessage(State, msg, fresh) = State

\* C9: in every reachable state, handling a message whose messageId is in
\* messageHistory (it was processed less than messageTimeout ago, so its
\* timer has not fired) changes nothing and sends nothing.
C9_IdInHistoryIsNoOp ==
  \A msg \in Messages(State) :
    (\E h \in messageHistory : h.messageId = msg.messageId)
      => \A fresh \in EntryIds \cup {NoId} :
           handleNonHandshakeMessage(State, msg, fresh) = State

\* a message arrived whose messageId was in messageHistory
C9_Witness ==
  /\ lastCall = <<"handleNonHandshakeMessage", "seen">>
  /\ messageHistory # {}

NewEntries(before, after) ==
  {after[i] : i \in {j \in 1..Len(after) : ~PoolHas(before, after[j].entryId)}}

C14_FirstBlockMined ==
  (Len(chain) = 1 /\ Len(entryPool) = Config.minEntriesPerBlock)
    ~> (/\ Len(chain) = 2
        /\ chain[2].previousHash = chain[1].hash
        /\ Len(chain[2].data) = Config.minEntriesPerBlock
        /\ \A i \in 1..Len(chain[2].data) :
             ~PoolHas(entryPool, chain[2].data[i].entryId))

\* the first block was mined from two submitted entries and committed
C14_Witness ==
  /\ lastCall = <<"addBlock", "saved">>
  /\ Len(chain) = 2
  /\ chain[2].blockCreator = "A"
  /\ chain[2].nonce > YieldEvery
  /\ Len(chain[2].data) = Config.minEntriesPerBlock
  /\ entryPool = <<>>

\* the storage a node can start on that holds no block: no file, or a file
\* with no text in it
EmptyStorage == {<<>>, <<<<>>>>}

\* C15: after start on absent or empty storage the chain is exactly the
\* genesis block, with index 0 and previousHash "0", its hash beginning with
\* `difficulty` zeros, and genesisBlockCreated (not blockchainLoaded) was
\* emitted
C15_StartCreatesMinedGenesis ==
  /\ lastCall[1] = "initialize" =>
       /\ Len(chain) = 1
       /\ chain[1].index = 0
       /\ chain[1].previousHash = <<"0">>
       /\ HasPrefix(chain[1])
  /\ \A file \in EmptyStorage :
       LET s == initialize(Constructed(file), file)
       IN  /\ Len(s.chain) = 1
           /\ s.emitted = <<<<"genesisBlockCreated", 0>>>>

\* C16: every block of the chain that came from a peer, through addPeerBlock
\* or replaceChain, has a hash that begins with block.difficulty zeros
C16_PeerBlocksHavePrefix ==
  \A i \in 1..Len(chain) : chain[i].blockCreator = "B" => HasPrefix(chain[i])

\* C17: validateBlock accepts a block exactly when its index is the tip's
\* plus one, its previousHash is the tip's hash, its timestamp is greater
\* than the tip's minus 60000 and validateBlockConsensus passes; a block
\* otherwise acceptable is rejected with a timestamp exactly 60000 ms behind
\* the tip and accepted with one 59999 ms behind.
C17_ValidateBlock ==
  \A b \in PeerBlocks(chain, now) :
    LET tip   == chain[Len(chain)]
        fits  == /\ b.index = tip.index + 1
                 /\ b.previousHash = tip.hash
                 /\ validateBlockConsensus(b)
    IN  /\ validateBlock(b, chain) <=> (fits /\ b.timestamp > tip.timestamp - 60000)
        /\ (fits /\ b.timestamp = tip.timestamp - 60000) => ~validateBlock(b, chain)
        /\ (fits /\ b.timestamp = tip.timestamp - 59999) => validateBlock(b, chain)

\* addPeerBlock has appended a block 59999 ms behind its predecessor, and a
\* block 60000 ms behind the tip is on offer
C17_Witness ==
  /\ lastCall = <<"addPeerBlock", "saved">>
  /\ Len(chain) = 2
  /\ chain[2].timestamp = chain[1].timestamp - 59999
  /\ \E b \in PeerBlocks(chain, now) :
       /\ b.timestamp = chain[2].timestamp - 60000
       /\ b.previousHash = chain[2].hash
       /\ ~validateBlock(b, chain)

\* what loadBlockchain reads back from a file holding the serialized chain
Reloaded(c) == loadBlockchain(<<saveBlockchain(c)>>)

MinedSmallestNonce ==
  pcOwn = "mined" =>
    LET cm == currentMiningBlock[1]
    IN  /\ ~cm.stopMining
        /\ cm.blk.hash = computeHash(cm.blk)
        /\ HasPrefix(cm.blk)
        /\ \A n \in 0..(cm.blk.nonce - 1) : ~HasPrefix(WithNonce(cm.blk, n))

\* C19: mineBlock counts the nonce up from 0 and returns true only with the
\* stop flag unset and the hash of the final, smallest, nonce beginning with
\* `difficulty` zeros; and with configured difficulty 0 createBlock returns
\* at once a block with nonce 0 and declared difficulty 0
C19_MineBlockAndDifficultyZero ==
  /\ MinedSmallestNonce
  /\ ~blockCreationInProgress =>
       LET s == addBlock([State EXCEPT !.config.difficulty = 0], entryPool)
       IN  /\ s.pcOwn = "mined"
           /\ s.currentMiningBlock[1].blk.nonce = 0
           /\ s.currentMiningBlock[1].blk.difficulty = 0

\* C20: when the storage append of addBlock fails, the mined block is not
\* added to the chain, neither blockCreated nor an incentive entry is
\* produced, and blockCreationEnded is emitted with null
C20_FailedSaveEndsWithNull ==
  pcOwn = "saving" =>
    LET r == addBlockAfterSave(State, FALSE)
    IN  /\ r.chain = chain
        /\ \A i \in 1..Len(r.emitted) :
             r.emitted[i][1] \notin {"blockCreated", "incentiveProcessed"}
        /\ \A i \in 1..Len(r.entryPool) : r.entryPool[i].from # "INCENTIVE"
        /\ \E i \in 1..Len(r.emitted) : r.emitted[i] = <<"blockCreationEnded", -1>>

\* B mined a block on the chain it started with, more than one block ahead
\* of A's tip, and its newBlock message reached A
HeardOfLongerChain ==
  /\ nodeB.loaded > 1
  /\ Len(nodeB.chain) > nodeB.loaded
  /\ Quiescent

\* C11: once A, on a shorter chain than B's, has received from B a newBlock
\* more than one index ahead of its tip, and every message was delivered and
\* every storage write completed, A's chain is B's chain
C11_LongerChainAdopted == HeardOfLongerChain => chain = nodeB.chain

\* the block ids of a chain and a pool that hold entry id
Holds(s, id) ==
  \/ PoolHas(s.entryPool, id)
  \/ \E i \in 1..Len(s.chain) : PoolHas(s.chain[i].data, id)

\* C12: with both nodes on the same genesis, once every message was
\* delivered and every callback has run, each entry submitted to A has
\* reached B, and if a node mined a block both nodes have the same tip hash
C12_TwoNodesConverge ==
  (nodeB # <<>> /\ nodeB.loaded = 1 /\ Quiescent) =>
    /\ \A id \in network.submitted : Holds(nodeB, id)
    /\ (Len(chain) > 1 \/ Len(nodeB.chain) > 1) =>
         getLatestBlock(chain).hash = getLatestBlock(nodeB.chain).hash

\* the chain c has a block whose data holds an entry with this id
InChain(c, id) == \E j \in 1..Len(c) : PoolHas(c[j].data, id)

\* C21: an entry leaves the pool only in a step after which a block that
\* contains it is in the node's chain; a mined block that is discarded
\* removes nothing from the pool
C21_EntryLeavesOnlyWithBlock ==
  [][\A i \in 1..Len(entryPool) :
       ~PoolHas(entryPool', entryPool[i].entryId)
         => InChain(chain', entryPool[i].entryId)]_vars

\* no entry of pool has the id of an entry of block b
PrunedOf(pool, b) ==
  \A j \in 1..Len(b.data) : ~PoolHas(pool, b.data[j].entryId)

\* C22: when an own block is committed, when a peer block is accepted and
\* when a peer chain is accepted, the pool is left with no entry whose
\* entryId appears in that block, respectively in a block of that chain
C22_PoolPruned ==
  /\ pcOwn = "saving" =>
       PrunedOf(addBlockAfterSave(State, TRUE).entryPool, block[1])
  /\ pcPeer = "saving" =>
       PrunedOf(addPeerBlockAfterSave(State, TRUE).entryPool,
                receivedBlock[1].blk)
  /\ pcChain = "saving" =>
       \A i \in 2..Len(chain) :
         PrunedOf(replaceChainAfterSave(State, TRUE).entryPool, chain[i])

\* a peer block and a peer chain are being saved whose entry is in the pool
C22_Witness ==
  /\ pcPeer = "saving"
  /\ pcChain = "saving"
  /\ ~PrunedOf(entryPool, receivedBlock[1].blk)
  /\ \E i \in 2..Len(chain) : ~PrunedOf(entryPool, chain[i])

\* C23: between the steps of the handlers a pool of minEntriesPerBlock
\* entries or more means a block creation is in progress; an entry that
\* brings the pool of an idle node to exactly minEntriesPerBlock starts a
\* block creation over the pool as it then is, and one that brings it to
\* less starts none
C23_MiningTriggered ==
  /\ Len(entryPool) >= Config.minEntriesPerBlock => blockCreationInProgress
  /\ ~blockCreationInProgress =>
       \A e \in SubmittedEntries(now) : \A fresh \in FreshIds(State, e) :
         LET r == addEntry(State, e, fresh)
         IN  /\ r.blockCreationInProgress
                  <=> Len(r.entryPool) >= Config.minEntriesPerBlock
             /\ r.blockCreationInProgress =>
                  r.currentMiningBlock[1].blk.data = r.entryPool

\* the entry that filled the pool to exactly minEntriesPerBlock started the
\* mining of the pool
C23_Witness ==
  /\ lastCall = <<"addEntry", "valid">>
  /\ Len(entryPool) = Config.minEntriesPerBlock
  /\ blockCreationInProgress
  /\ pcOwn = "mining"
  /\ currentMiningBlock[1].blk.data = entryPool

\* how many times the event `name` is in the events of a step
Count(emitted, name) ==
  Cardinality({i \in 1..Len(emitted) : emitted[i][1] = name})

\* the step that ended in r was the exit of addBlock: one blockCreationEnded,
\* processingOwnBlock false, and blockCreationInProgress true again only for
\* a block creation started after that event
ExitsOnce(r) ==
  /\ Count(r.emitted, "blockCreationEnded") = 1
  /\ ~r.processingOwnBlock
  /\ Count(r.emitted, "blockCreationStarted") <= 1
  /\ r.blockCreationInProgress <=> Count(r.emitted, "blockCreationStarted") = 1
  /\ \A i, j \in 1..Len(r.emitted) :
       (r.emitted[i][1] = "blockCreationEnded"
          /\ r.emitted[j][1] = "blockCreationStarted") => i < j

Before(emitted, a, b) ==
  \A i, j \in 1..Len(emitted) :
    (emitted[i][1] = a /\ emitted[j][1] = b) => i < j

\* the events of the step that commits a block are in the lifecycle's order,
\* and a next lifecycle starts only after blockCreationEnded
CommitOrder ==
  pcOwn = "saving" =>
    LET r == addBlockAfterSave(State, TRUE)
    IN  /\ Before(r.emitted, "blockCreated", "incentiveProcessed")
        /\ Before(r.emitted, "blockCreated", "blockCreationEnded")
        /\ Before(r.emitted, "incentiveProcessed", "blockCreationEnded")
        /\ Before(r.emitted, "blockCreationEnded", "blockCreationStarted")

\* C25: the events of a block-creation lifecycle come in the order
\* entryAdded (of the entry that triggers it), blockCreationStarted,
\* blockCreated, incentiveProcessed, blockCreationEnded, and no
\* blockCreationStarted comes before the blockCreationEnded of the lifecycle
\* before it
C25_LifecycleOrder ==
  /\ CommitOrder
  /\ \A e \in SubmittedEntries(now) : \A fresh \in FreshIds(State, e) :
       Before(addEntry(State, e, fresh).emitted,
              "entryAdded", "blockCreationStarted")

\* the newBlock messages on offer that the node has not seen
FreshNewBlocks ==
  {msg \in Messages(State) :
     msg.type = "newBlock" /\ msg.messageId \notin HistoryIds(messageHistory)}

\* the step that ended in r sent msg on to every peer but its originator
GossipedOnward(r, msg) ==
  \A k \in 1..Len(Peers) :
    Peers[k] # msg.senderConfig =>
      \E i \in 1..Len(r.sent) : r.sent[i] = [to |-> Peers[k], msg |-> msg]

\* C26: for an unseen newBlock more than one index ahead of the tip, come
\* straight from its originator or relayed by a peer, the node sends a
\* requestFullChain, leaves its chain as it is and gossips the message on
C26_AheadBlockRequestsChain ==
  \A msg \in FreshNewBlocks :
    msg.data.index > getLatestBlock(chain).index + 1 =>
      LET r == handleNonHandshakeMessage(State, msg, NoId)
      IN  /\ \E i \in 1..Len(r.sent) : r.sent[i].msg.type = "requestFullChain"
          /\ r.chain = chain
          /\ GossipedOnward(r, msg)

\* the same for the messages that come straight from their originator, a
\* peer of the node: the request goes to it
AheadBlockFromPeerRequestsChain ==
  \A msg \in FreshNewBlocks :
    (msg.data.index > getLatestBlock(chain).index + 1 /\ msg.senderConfig = "B") =>
      LET r == handleNonHandshakeMessage(State, msg, NoId)
      IN  /\ \E i \in 1..Len(r.sent) :
               r.sent[i].to = "B" /\ r.sent[i].msg.type = "requestFullChain"
          /\ r.chain = chain
          /\ GossipedOnward(r, msg)
\* C27: a newBlock message that is no duplicate and whose block is at most
\* one index ahead of the tip is gossiped onward unchanged in either case;
\* if validateBlock accepts the block it is handed to addPeerBlock (which
\* takes it up unless a peer block is already in process); if validateBlock
\* rejects it, chain, storage, pool and the pending file write are
\* unchanged, no peer block is taken up and mining is not cancelled
NearNewBlocks == {msg \in FreshNewBlocks : msg.data.index <= getLatestBlock(chain).index + 1}

C27_NewBlockValidOrDropped ==
  \A msg \in NearNewBlocks :
    LET r == handleNonHandshakeMessage(State, msg, NoId)
    IN  /\ GossipedOnward(r, msg)
        /\ \A i \in 1..Len(r.sent) : r.sent[i].msg = msg
        /\ r.chain = chain /\ r.storage = storage /\ r.entryPool = entryPool
        /\ r.currentMiningBlock = currentMiningBlock
        /\ IF validateBlock(msg.data, chain)
             THEN IF processingPeerBlock
                    THEN /\ r.receivedBlock = receivedBlock
                         /\ r.pcPeer = pcPeer
                    ELSE /\ r.processingPeerBlock
                         /\ r.pcPeer = "validating"
                         /\ r.receivedBlock[1].blk = msg.data
             ELSE /\ r.processingPeerBlock = processingPeerBlock
                  /\ r.receivedBlock = receivedBlock
                  /\ r.pcPeer = pcPeer
                  /\ r.fileWrite = fileWrite
                  /\ r.blockCreationInProgress = blockCreationInProgress

\* a newBlock message has just been handled while the node was mining; no
\* peer block was taken up, and a rejected block at most one index ahead is
\* among the messages now in the history
C27_Witness ==
  /\ lastCall = <<"handleNonHandshakeMessage", "newBlock">>
  /\ pcOwn = "mining" /\ ~currentMiningBlock[1].stopMining
  /\ pcPeer = "idle"
  /\ \E msg \in Messages(State) :
        /\ msg.type = "newBlock" /\ msg.senderConfig = "B"
        /\ msg.messageId \in HistoryIds(messageHistory)
        /\ msg.data.index <= getLatestBlock(chain).index + 1
        /\ ~validateBlock(msg.data, chain)

\* the number of times r sends msg to peer p
SentTo(r, p, msg) == Cardinality({i \in 1..Len(r.sent) : r.sent[i] = [to |-> p, msg |-> msg]})

\* the message broadcastEntry builds for entry e
EntryMessage(e) == [type |-> "newEntry", data |-> e, senderConfig |-> Config.id, messageId |-> FreshMessageId]

\* the message broadcastBlock builds for block b
BlockMessage(b) == [type |-> "newBlock", data |-> b, senderConfig |-> Config.id, messageId |-> FreshMessageId]

\* C28: broadcast(msg) sends msg once to every peer of the peer table but
\* the one whose id is msg.senderConfig.id and to nobody else, so no gossip
\* goes to the originator of the message; an entry or block this node
\* originates goes once to every peer
C28_BroadcastSkipsOriginator ==
  /\ \A msg \in Messages(State) :
        LET r == broadcast(State, msg)
        IN  /\ \A k \in 1..Len(Peers) :
                  SentTo(r, Peers[k], msg)
                    = (IF Peers[k] = msg.senderConfig THEN 0 ELSE 1)
            /\ \A i \in 1..Len(r.sent) :
                  /\ r.sent[i].msg = msg
                  /\ r.sent[i].to # msg.senderConfig
                  /\ PeersHas(State, r.sent[i].to)
  /\ \A msg \in Messages(State) :
        \A fresh \in (IF msg.type = "newEntry" THEN FreshIds(State, msg.data) ELSE {NoId}) :
          LET r == handleNonHandshakeMessage(State, msg, fresh)
          IN  \A i \in 1..Len(r.sent) :
                r.sent[i].msg.senderConfig = msg.senderConfig
                  => r.sent[i].to # msg.senderConfig
  /\ \A e \in SubmittedEntries(now) : \A fresh \in FreshIds(State, e) :
        LET r == broadcastEntry(State, WithEntryId(e, fresh))
        IN  /\ Len(r.sent) = Len(Peers)
            /\ \A k \in 1..Len(Peers) :
                  SentTo(r, Peers[k], EntryMessage(WithEntryId(e, fresh))) = 1
  /\ Len(chain) > 0 =>
        LET r == broadcastBlock(State, getLatestBlock(chain))
        IN  /\ Len(r.sent) = Len(Peers)
            /\ \A k \in 1..Len(Peers) :
                  SentTo(r, Peers[k], BlockMessage(getLatestBlock(chain))) = 1

\* a gossip message of peer B has just been relayed while this node holds
\* entries it has broadcast and is mining a block
C28_Witness ==
  /\ lastCall = <<"handleNonHandshakeMessage", "ping">>
  /\ Len(entryPool) > 0
  /\ pcOwn = "mining"

\* a handshake is the next message to be handled at the end `side` of socket i
HandshakeDue(i, side) ==
  /\ sockets[i].readyState = "OPEN"
  /\ sockets[i].inbox[side] # <<>>
  /\ Head(sockets[i].inbox[side]).type = "handshake"

\* what handling a handshake does: if the sender's id was not in the peer
\* table, exactly one handshake of the receiving node goes back on the same
\* socket, and none if it was; the sender is recorded with that socket;
\* nothing is put on any other socket and no other node's table changes
HandshakeStep ==
  \A i \in 1..Len(sockets) : \A side \in Sides :
    HandshakeDue(i, side) =>
      LET n == Holder(P2P, i, side)
          msg == Head(sockets[i].inbox[side])
          r == handleMessage(P2P, i, side)
      IN  /\ r.sockets[i].inbox[Other(side)]
               = (IF Has(peers[n], msg.senderConfig)
                    THEN sockets[i].inbox[Other(side)]
                    ELSE Append(sockets[i].inbox[Other(side)], Handshake(n)))
          /\ r.sockets[i].inbox[side] = Tail(sockets[i].inbox[side])
          /\ Has(r.peers[n], msg.senderConfig)
          /\ r.peers[n][msg.senderConfig] = <<i, side>>
          /\ \A j \in 1..Len(sockets) : j # i => r.sockets[j] = sockets[j]
          /\ \A m \in Ids \ {n} : r.peers[m] = peers[m]

\* no handshake is in flight and no socket is about to open
Quiet ==
  \A i \in 1..Len(sockets) :
    /\ sockets[i].readyState # "CONNECTING"
    /\ \A side \in Sides : sockets[i].inbox[side] = <<>>

\* some connection is open and none has closed
Connected ==
  /\ \E i \in 1..Len(sockets) : sockets[i].readyState = "OPEN"
  /\ \A i \in 1..Len(sockets) : sockets[i].readyState # "CLOSED"

\* when the exchange has ended, each node is in the other's peer table
SettledKnown ==
  (Quiet /\ Connected) =>
    \A n \in Ids : \A m \in Ids \ {n} : Has(peers[n], m)

\* C29: a handshake from an id not in the peer table is answered with
\* exactly one handshake and the peer is recorded, one from a known id is
\* not answered, and a handshake is passed on to nobody; the exchange ends
\* (from some point on no handshake is in flight), and when it has ended on
\* connections that stay open each node is in the other's peer table
C29_HandshakeExchange == []HandshakeStep /\ []SettledKnown /\ <>[]Quiet

\* two connections are open between the nodes, the exchange has ended on
\* both, and each node has the other in its table
C29_Witness ==
  /\ Quiet /\ Connected
  /\ Cardinality({i \in 1..Len(sockets) : sockets[i].readyState = "OPEN"}) >= 2
  /\ \A i \in 1..Len(sockets) : \A side \in Sides : sockets[i].onClose[side] # {}
  /\ \A n \in Ids : \A m \in Ids \ {n} : Has(peers[n], m)

\* node n has handled a handshake of p on the end `side` of socket i
Heard(n, p, i, side) ==
  /\ Holder(P2P, i, side) = n
  /\ p \in sockets[i].onClose[side]

\* the "close" event of the end `side` of socket i has not fired
NotClosedAt(i, side) ==
  \/ sockets[i].readyState = "OPEN"
  \/ side \in sockets[i].closeDue

\* while a connection over which p sent its handshake to n is open, n has an
\* entry for p
PresentWhileOpen ==
  \A n \in Ids : \A p \in Ids \ {n} :
    (\E i \in 1..Len(sockets) : \E side \in Sides :
        Heard(n, p, i, side) /\ sockets[i].readyState = "OPEN")
      => Has(peers[n], p)

\* n has an entry for p only if p sent its handshake over a connection whose
\* close n has not seen
AbsentAfterClose ==
  \A n \in Ids : \A p \in Ids \ {n} :
    Has(peers[n], p) =>
      \E i \in 1..Len(sockets) : \E side \in Sides :
        Heard(n, p, i, side) /\ NotClosedAt(i, side)

\* C30: the peer table of a node holds an entry for p exactly from p's first
\* handshake to the close of p's connection: none after the close, and one
\* as long as a connection on which p's handshake arrived is open, also when
\* another connection of p closes
C30_PeerTableTracksConnection == PresentWhileOpen /\ AbsentAfterClose

\* the entries of node n that were not recorded with socket i
EntriesElsewhere(p, n, i) == {id \in DOMAIN p.peers[n] : p.peers[n][id][1] # i}

\* C31: when the socket of a peer has reported an error at a node, the entry
\* recorded with that socket is gone from the node's table once the close
\* that follows has been seen, and the error leaves the node's entries for
\* all other peers and the connections to them as they were
C31_ErroredPeerRemoved ==
  /\ \A i \in 1..Len(sockets) : \A side \in sockets[i].errored :
       LET n == Holder(P2P, i, side)
       IN  side \notin sockets[i].closeDue =>
             \A id \in DOMAIN peers[n] : peers[n][id] # <<i, side>>
  /\ \A i \in 1..Len(sockets) : \A side \in Sides :
       sockets[i].readyState = "OPEN" =>
         LET n == Holder(P2P, i, side)
             r == errorEvent(P2P, i, side)
         IN  /\ EntriesElsewhere(r, n, i) = EntriesElsewhere(P2P, n, i)
             /\ \A j \in 1..Len(sockets) : j # i => r.sockets[j] = sockets[j]

\* an error at the dialling end leaves the other peers and connections alone
ClientErrorLeavesOthers ==
  \A i \in 1..Len(sockets) :
    sockets[i].readyState = "OPEN" =>
      LET n == Holder(P2P, i, "client")
          r == errorEvent(P2P, i, "client")
      IN  /\ r.peers = peers
          /\ \A j \in 1..Len(sockets) : j # i => r.sockets[j] = sockets[j]

\* C32: no step makes the chain shorter
C32_ChainNeverShrinks == [][Len(chain') >= Len(chain)]_vars

\* replaceChain has just put a longer chain in place
C32_Witness ==
  /\ lastCall = <<"replaceChain", "accepted">>
  /\ pcChain = "saving"
  /\ Len(chain) > 1

\* the genesis block of a network configured with another genesisTimestamp
ForeignGenesis == createGenesisBlock([Config EXCEPT !.genesisTimestamp = 1])

RECURSIVE ForeignChain(_, _)
\* a valid chain of n blocks of peer B on the foreign genesis block
ForeignChain(n, t) ==
  IF n = 1 THEN <<ForeignGenesis>>
  ELSE LET c == ForeignChain(n - 1, t)
       IN  Append(c, PeerBlock(c[n - 1], <<>>, t))

\* the chains a peer may send, those on another genesis block included
OfferedChains == PeerChains(chain, now) \cup {ForeignChain(Len(chain) + 1, now)}

\* C33: block 0 of the chain never changes once the node has started:
\* whatever chain replaceChain is called with, by the application or for a
\* fullChain message, the chain it leaves starts with the node's own
\* genesis block
C33_GenesisNeverChanges ==
  \A c \in OfferedChains :
    /\ replaceChain(State, c).chain[1] = chain[1]
    /\ \A id \in 1..MaxMsgId :
         handleNonHandshakeMessage(State, [type |-> "fullChain", data |-> c, senderConfig |-> "B", messageId |-> id], NoId).chain[1] = chain[1]

\* with the chains on the node's own genesis block, block 0 stays
OwnGenesisStays == [][chain'[1] = chain[1]]_vars

\* the ids of the entries in the blocks of chain c
ChainEntryIds(c) == UNION {{c[j].data[k].entryId : k \in 1..Len(c[j].data)} : j \in 1..Len(c)}

\* C34: no entry is confirmed twice: each entryId is in at most one block
\* of the chain
C34_NoEntryConfirmedTwice ==
  \A id \in ChainEntryIds(chain) :
    Cardinality({j \in 1..Len(chain) : PoolHas(chain[j].data, id)}) <= 1

\* a newEntry message for an entry that a block of the chain holds does not
\* bring the entry into the pool
GossipAfterBlockIgnored ==
  \A msg \in Messages(State) :
    (/\ msg.type = "newEntry"
     /\ msg.messageId \notin HistoryIds(messageHistory)
     /\ msg.data.entryId # NoId
     /\ InChain(chain, msg.data.entryId)
     /\ ~PoolHas(entryPool, msg.data.entryId))
      => ~PoolHas(handleNonHandshakeMessage(State, msg, NoId).entryPool, msg.data.entryId)

\* the ids of the entries in pool
PoolIds(pool) == {pool[i].entryId : i \in 1..Len(pool)}

\* C35: no accepted entry is lost: an entry that is in the pool or in a
\* block of the chain is, after every step, in the pool or in a block of
\* the chain
C35_NoEntryLost ==
  [][(PoolIds(entryPool) \cup ChainEntryIds(chain))
       \subseteq (PoolIds(entryPool') \cup ChainEntryIds(chain'))]_vars

\* C36: whenever replaceChain puts a new chain in place, it emits
\* newPeerChainAccepted before it ends, so that mining in progress is
\* cancelled and the pool holds no entry of the new chain; if the storage
\* rewrite fails, the chain is what it was before the call
C36_ReplaceChainEvent ==
  \A c \in PeerChains(chain, now) :
    LET s1 == replaceChain(State, c)
        done == replaceChainAfterSave(s1, TRUE)
        failed == replaceChainAfterSave(s1, FALSE)
    IN  s1.chain # chain =>
          /\ Count(done.emitted, "newPeerChainAccepted") = 1
          /\ currentMiningBlock # <<>> => done.currentMiningBlock[1].stopMining
          /\ \A i \in 2..Len(done.chain) : PrunedOf(done.entryPool, done.chain[i])
          /\ failed.chain = chain

\* the same when the storage rewrite succeeds
ReplaceChainEventWhenSaved ==
  \A c \in PeerChains(chain, now) :
    LET s1 == replaceChain(State, c)
        done == replaceChainAfterSave(s1, TRUE)
    IN  s1.chain # chain =>
          /\ Count(done.emitted, "newPeerChainAccepted") = 1
          /\ currentMiningBlock # <<>> => done.currentMiningBlock[1].stopMining
          /\ \A i \in 2..Len(done.chain) : PrunedOf(done.entryPool, done.chain[i])

\* no addBlock, addPeerBlock or replaceChain is in progress
NoChainOperation ==
  /\ pcOwn = "idle" /\ pcPeer = "idle" /\ pcChain = "idle"
  /\ ~blockCreationInProgress

\* C37: with a storage that does not fail, whenever no addBlock,
\* addPeerBlock or replaceChain is in progress the blocks in the storage
\* file are the blocks of the in-memory chain, in order
C37_StorageMatchesChain ==
  NoChainOperation =>
    /\ loadBlockchain(<<storage>>).ok
    /\ loadBlockchain(<<storage>>).blocks = chain

\* the step starts a block creation: addBlock passes its guard
CreationStarts ==
  /\ pcOwn' \in {"mining", "mined"}
  /\ pcOwn = "idle" \/ lastCall'[1] = "addBlock"

\* the entries of pool that block b does not hold
LateEntries(pool, b) == SelectSeq(pool, LAMBDA e : ~PoolHas(b.data, e.entryId))

\* C38: the data of a block in creation is the pool as it was, in order,
\* when the creation started; mining leaves the data as it is; the block
\* that is committed carries that data; and the entries that came into the
\* pool meanwhile are not in the block and are in the pool, in their order,
\* after the commit
C38_BlockIsPoolSnapshot ==
  /\ [][CreationStarts => currentMiningBlock'[1].blk.data = entryPool']_vars
  /\ [][(pcOwn = "mining" /\ lastCall'[1] = "mineBlock")
          => currentMiningBlock'[1].blk.data = currentMiningBlock[1].blk.data]_vars
  /\ [](pcOwn = "mined" =>
          LET r == addBlockAfterMining(State, TRUE)
          IN  r.pcOwn = "saving" => r.block[1].data = currentMiningBlock[1].blk.data)
  /\ [](pcOwn = "saving" =>
          LET r == addBlockAfterSave(State, TRUE)
              late == LateEntries(entryPool, block[1])
          IN  /\ r.chain[Len(chain) + 1].data = block[1].data
              /\ \A i \in 1..Len(late) : PoolHas(r.entryPool, late[i].entryId)
              /\ LateEntries(r.entryPool, block[1]) = r.entryPool
              /\ SelectSeq(r.entryPool, LAMBDA e : PoolHas(entryPool, e.entryId)) = late)

\* a block is about to be committed and the pool holds an entry that came
\* in while the block was mined
C38_Witness ==
  /\ pcOwn = "saving"
  /\ LateEntries(entryPool, block[1]) # <<>>
  /\ Len(block[1].data) >= Config.minEntriesPerBlock

\* the places in chain c of the INCENTIVE entries for the block at height h
RewardsOf(c, h) == {<<j, k>> \in (1..Len(c)) \X (1..MaxEntryId + 2) : k <= Len(c[j].data) /\ c[j].data[k].from = "INCENTIVE" /\ c[j].data[k].data = <<"incentive", h>>}

\* C39: the reward for a block is credited at most once: the chain holds at
\* most one INCENTIVE entry for the block at each height
C39_RewardCreditedOnce ==
  \A h \in 0..Len(chain) : Cardinality(RewardsOf(chain, h)) <= 1

====
